---- MODULE Spec2Model ----
(***************************************************************************)
(* Call-Center-Audio-Intelligence: the processing pipeline of              *)
(* backend/app/api/calls.py over the durable store of                      *)
(* backend/app/db/models.py.                                               *)
(*                                                                         *)
(* The store is the three tables a Call owns (calls.status, transcripts,   *)
(* call_analyses, action_items).  Every request handler and every          *)
(* background pipeline run owns one SQLAlchemy session (database.py,       *)
(* expire_on_commit=False): the session's view of call.status, the rows    *)
(* added but not yet flushed, and whether a failed flush left the session  *)
(* waiting for a rollback.  Handlers are cut at their await points.        *)
(***************************************************************************)
EXTENDS Integers, Sequences, FiniteSets, TLC

\* ------------------------------------------------------------------ bounds
\* Number of handler/run sessions that may exist per Call.
MaxInFlight == 2
\* Longest action_items list a language-model answer carries in the model.
MaxItems == 2
\* Cap on the action_items rows stored per Call (the table itself is unbounded).
MaxRows == 3
\* Pipeline runs of a Call (scheduled, in progress, or about to be scheduled
\* by a process request in flight) up to which one more overlapping process
\* request arrives.
MaxRuns == 2

\* ------------------------------------------------------- program constants
\* analysis.py:302  len(transcript.strip()) < 50
MIN_ANALYSIS_LENGTH == 50

Calls == {"c1", "c2"}
Slots == 1..MaxInFlight

\* models.py CallStatus
PENDING == "pending"
TRANSCRIBING == "transcribing"
TRANSCRIBED == "transcribed"
ANALYZING == "analyzing"
ANALYZED == "analyzed"
FAILED == "failed"
CallStatus == {PENDING, TRANSCRIBING, TRANSCRIBED, ANALYZING, ANALYZED, FAILED}

\* Stripped lengths of the transcript texts the job service may return:
\* empty, just below the analysis floor, at the floor.
TextLens == {0, MIN_ANALYSIS_LENGTH - 1, MIN_ANALYSIS_LENGTH}

\* How transcribe_audio can end (transcription.py:50-195).  "config" and
\* "audio" raise before any request is sent; the others after the submit.
TranscribeFailures == {"config", "audio", "fatal_http", "job_failed", "canceled", "timeout"}
SentBeforeFailure(f) == f \notin {"config", "audio"}

\* Shape of one entry of the action_items value returned by run_full_analysis:
\* a JSON object ("dict") or anything else ("other"), on which item_data.get
\* raises AttributeError (calls.py:317, calls.py:404).
ItemShapes == {"dict", "other"}
ItemLists == UNION {[1..n -> ItemShapes] : n \in 0..MaxItems}

\* ------------------------------------------------------------- exceptions
\* retry_after of a RateLimitError that carries no hint, and the retry-after
\* header of a response that has none: None (error_handling.py:27, :87).
NoHint == -1

\* An exception as the Backoff Executor sees it: its class, the status code
\* (APIError.status_code, or response.status_code of an httpx.HTTPStatusError),
\* the wait hint (RateLimitError.retry_after, or the retry-after header of the
\* response of an httpx.HTTPStatusError), and APIError.retryable.
Exc(cls, code, hint, flag) ==
    [cls |-> cls, status_code |-> code, retry_after |-> hint, retryable |-> flag]
NoExc == Exc("none", 0, NoHint, FALSE)

\* error_handling.py:25-29  RateLimitError(retry_after=hint)
RateLimitError(hint) == Exc("RateLimitError", 429, hint, TRUE)
\* httpx.HTTPStatusError of a response with this status and retry-after header
HTTPStatusError(code, hint) == Exc("HTTPStatusError", code, hint, FALSE)
\* httpx.TimeoutException
TimeoutException == Exc("TimeoutException", 0, NoHint, FALSE)
\* any other network failure (httpx.ConnectError ...): not an HTTPStatusError
\* and not a TimeoutException
ConnectError == Exc("ConnectError", 0, NoHint, FALSE)
\* error_handling.py:16-22, 32-39  APIError.__init__ defaults
DEFAULT_STATUS_CODE == 500
TranscriptionError(code, flag) == Exc("TranscriptionError", code, NoHint, flag)
AnalysisError(code, flag) == Exc("AnalysisError", code, NoHint, flag)
\* output.get on an output that is neither a string nor an object
AttributeError == Exc("AttributeError", 0, NoHint, FALSE)
\* len() of a value that has no length
TypeError == Exc("TypeError", 0, NoHint, FALSE)

\* error_handling.py:55  retryable_exceptions (default, used by every caller)
RETRYABLE_EXCEPTIONS == {"HTTPStatusError", "TimeoutException", "RateLimitError"}
\* error_handling.py:90  the statuses of an HTTPStatusError that are retried
RETRY_STATUS == {429, 500, 502, 503, 504}
\* transcription.py:46, analysis.py:41  the statuses flagged retryable
SERVER_ERRORS == {500, 502, 503, 504}
\* error_handling.py:53-54
MAX_DELAY == 60
EXPONENTIAL_BASE == 2
\* transcription.py:34, analysis.py:32  headers.get("retry-after", 60)
DEFAULT_RETRY_AFTER == 60
\* transcription.py:115-116, 134-135, 124-125; analysis.py:45, 73
SUBMIT_MAX_RETRIES == 3
SUBMIT_BASE_DELAY == 2
POLL_MAX_RETRIES == 2
POLL_BASE_DELAY == 1
LLM_MAX_RETRIES == 3
LLM_BASE_DELAY == 2
MAX_POLLS == 120
POLL_INTERVAL == 5

\* ---------------------------------------------------- executor parameters
\* Largest max_retries an arbitrary operation is run with.
MaxRetries == 3
\* Polls of one transcribe_audio call that may end in an exception.
MaxFailedPolls == 2
\* Wait hints a server sends: zero, below and above max_delay.
Hints == {0, 7, MAX_DELAY + 40}
BaseDelays == {1, 2}
MaxDelays == {5, MAX_DELAY}
\* Failing HTTP statuses the services answer with.
ErrorCodes == {404, 429, 503}
\* ------------------------------------------------------------ JSON values
\* The values of a status document and of an analysis record, as json.loads
\* and the code make them.
None == [type |-> "null"]
Num(n) == [type |-> "number", n |-> n]
Str(t) == [type |-> "string", s |-> t]
True == [type |-> "bool", b |-> TRUE]
False == [type |-> "bool", b |-> FALSE]
List(items) == [type |-> "list", items |-> items]
\* The float num / den of a true division.
Float(num, den) == [type |-> "float", num |-> num, den |-> den]

\* bool(v) of Python
Truthy(v) ==
    IF v.type = "null" THEN FALSE
    ELSE IF v.type = "number" THEN v.n # 0
    ELSE IF v.type = "string" THEN v.s # ""
    ELSE IF v.type = "list" THEN v.items # <<>>
    ELSE IF v.type = "float" THEN v.num # 0
    ELSE v.b

\* A dict is a function from its keys to values.
EmptyDict == [k \in {} |-> None]
\* d.get(k, default)
get(d, k, default) == IF k \in DOMAIN d THEN d[k] ELSE default
\* d[k] = v
set(d, k, v) == [x \in DOMAIN d \cup {k} |-> IF x = k THEN v ELSE d[x]]
\* The value of a key the dict does not have.
Absent == [type |-> "absent"]
\* The dict of the keys of f whose value is not Absent.
Dict(f) == [k \in {x \in DOMAIN f : f[x] # Absent} |-> f[k]]
\* A JSON object as a value.
Obj(d) == [type |-> "object", d |-> d]

\* What the executor runs: an arbitrary operation ("func"), or one of the
\* three request functions.
Requests == {"submit", "poll", "llm"}
Funcs == {"func"} \cup Requests
\* Replicate prediction statuses; the first two are in progress.
JobStatuses == {"starting", "processing", "succeeded", "failed", "canceled"}
TerminalStatuses == {"succeeded", "failed", "canceled"}
\* The output of a succeeded prediction: a string, an object, or null.
OutputShapes ==
    {Str("hello"),
     Obj([transcription |-> Str("hello"), segments |-> List(<<Str("segment")>>)]),
     None}
\* The error messages of a failed prediction.
UpstreamErrors == {"CUDA out of memory"}

VARIABLES
    status,        \* calls.status, committed                [Calls -> CallStatus]
    transcripts,   \* transcripts rows of a Call (raw_text length) [Calls -> Seq]
    analyses,      \* number of call_analyses rows of a Call
    action_items,  \* number of action_items rows of a Call
    queue,         \* pipeline runs scheduled by process_call, not yet started
    op,            \* the sessions: [Calls -> [Slots -> record]]
    overlapped,    \* history: two process requests of the Call overlapped
    rb,            \* the running retry_with_backoff call
    job,           \* the running transcribe_audio call
    pj,            \* the running parse_json_response call
    fa,            \* the running run_full_analysis call
    va             \* the running validate_analysis call

vars == <<status, transcripts, analyses, action_items, queue, op,
          overlapped, rb, job, pj, fa, va>>
\* What the request handlers and the pipeline run leave alone.
rest == <<overlapped, rb, job, pj, fa, va>>

Idle == [kind |-> "none", pc |-> "idle", cur |-> PENDING, seen |-> PENDING,
         newT |-> <<>>, newA |-> 0, newI |-> 0, broken |-> FALSE,
         text |-> 0, tres |-> "none", ares |-> "none", items |-> <<>>,
         sentT |-> FALSE, sentL |-> FALSE, resp |-> 0]

\* No retry_with_backoff call is running.
NoCall == [func |-> "none", max_retries |-> 0, base_delay |-> 0, max_delay |-> 0,
           exponential_base |-> 0, pc |-> "idle", attempt |-> 0, invoked |-> 0,
           sleeps |-> <<>>, delay |-> 0, out |-> NoExc, last_exception |-> NoExc,
           exc |-> NoExc, result |-> "none", output |-> Absent, error |-> "none",
           hinted |-> FALSE]

\* No transcribe_audio call is running.
NoJob == [pc |-> "idle", poll_count |-> 0, waits |-> 0, inprogress |-> 0,
          swallowed |-> 0, exhausted |-> FALSE, fatal |-> FALSE,
          observed |-> "none", error |-> NoExc, message |-> <<>>,
          result |-> "none", output |-> Absent, text |-> Absent,
          segments |-> Absent]

\* No parse_json_response, run_full_analysis or validate_analysis call is
\* running.
NoFunc == [pc |-> "idle"]

Free(c, s) == op[c][s].pc \in {"idle", "done"}
\* An operation is in flight for c: a handler or run has started and not
\* finished, or a pipeline run is scheduled.
InFlight(c) == queue[c] > 0 \/ \E s \in Slots : ~Free(c, s)
\* Requests take the lowest free session slot.
LowestFree(c, s) == Free(c, s) /\ \A t \in Slots : t < s => ~Free(c, t)

\* The store of freshly uploaded Calls, no session open.
StoreInit ==
    /\ status = [c \in Calls |-> PENDING]
    /\ transcripts = [c \in Calls |-> <<>>]
    /\ analyses = [c \in Calls |-> 0]
    /\ action_items = [c \in Calls |-> 0]
    /\ queue = [c \in Calls |-> 0]
    /\ op = [c \in Calls |-> [s \in Slots |-> Idle]]
    /\ overlapped = [c \in Calls |-> FALSE]

Init ==
    /\ StoreInit
    /\ rb = NoCall
    /\ job = NoJob
    /\ pj = NoFunc /\ fa = NoFunc /\ va = NoFunc

\* The shape of the store (models.py) and of the sessions.
TypeOK ==
    /\ status \in [Calls -> CallStatus]
    /\ \A c \in Calls :
         /\ transcripts[c] \in Seq(TextLens)
         /\ analyses[c] \in Nat
         /\ action_items[c] \in 0..MaxRows
         /\ queue[c] \in Nat
         /\ \A s \in Slots :
              /\ op[c][s].kind \in {"none", "transcribe", "analyze", "process", "pipeline"}
              /\ op[c][s].cur \in CallStatus /\ op[c][s].seen \in CallStatus
              /\ op[c][s].tres \in {"none", "ok"} \cup TranscribeFailures
              /\ op[c][s].ares \in {"none", "ok", "raise"}
              /\ op[c][s].items \in ItemLists
              /\ op[c][s].resp \in {0, 200, 400, 500}

\* ----------------------------------------------------------- the session
\* A fresh session whose first statement loaded the Call row (calls.py:223,
\* 265, 342, 435: select(Call), scalar_one_or_none).
Loaded(c, k) == [Idle EXCEPT !.kind = k, !.pc = "check",
                             !.cur = status[c], !.seen = status[c]]

\* call.status = v
SetStatus(o, v) == [o EXCEPT !.cur = v]

\* The unique constraints on transcripts.call_id and call_analyses.call_id
\* (models.py:121, models.py:133) as the flush of session o meets them.
UniqueOK(c, o) ==
    /\ Len(transcripts[c]) + Len(o.newT) <= 1
    /\ analyses[c] + o.newA <= 1

\* await db.commit() succeeds: the session is usable and its flush violates
\* no constraint.  A session whose flush failed raises on every later commit
\* until it is rolled back, and no handler rolls back.
CommitOK(c, o) == ~o.broken /\ UniqueOK(c, o)

\* The session after await db.commit().  On success the pending rows are
\* persistent and call.status is clean (expire_on_commit=False keeps it);
\* on failure the transaction is rolled back, the pending rows are expunged
\* and the session is left waiting for a rollback.
Committed(c, o) ==
    IF CommitOK(c, o)
    THEN [o EXCEPT !.seen = o.cur, !.newT = <<>>, !.newA = 0, !.newI = 0]
    ELSE [o EXCEPT !.broken = TRUE, !.newT = <<>>, !.newA = 0, !.newI = 0]

\* Mutant of Commit: the UPDATE of calls.status has no WHERE clause, it sets
\* the status of every Call.
Commit_everyCall(c, o) ==
    /\ status' = [d \in Calls |->
                    IF CommitOK(c, o) /\ o.cur # o.seen THEN o.cur ELSE status[d]]
    /\ transcripts' = [transcripts EXCEPT ![c] =
                    IF CommitOK(c, o) THEN @ \o o.newT ELSE @]
    /\ analyses' = [analyses EXCEPT ![c] =
                    IF CommitOK(c, o) THEN @ + o.newA ELSE @]
    /\ action_items' = [action_items EXCEPT ![c] =
                    IF CommitOK(c, o) THEN @ + o.newI ELSE @]

\* The store after await db.commit() of session o: one transaction holding
\* the UPDATE of calls.status (emitted only when the attribute differs from
\* the value the session last loaded or wrote) and the INSERTs of the added
\* rows; nothing at all when the commit raises.
Commit(c, o) ==
    /\ status' = [status EXCEPT ![c] =
                    IF CommitOK(c, o) /\ o.cur # o.seen THEN o.cur ELSE @]
    /\ transcripts' = [transcripts EXCEPT ![c] =
                    IF CommitOK(c, o) THEN @ \o o.newT ELSE @]
    /\ analyses' = [analyses EXCEPT ![c] =
                    IF CommitOK(c, o) THEN @ + o.newA ELSE @]
    /\ action_items' = [action_items EXCEPT ![c] =
                    IF CommitOK(c, o) THEN @ + o.newI ELSE @]

\* Mutant of Failing: the except-branch puts the Call back to `pending`.
Failing_pending(o) == SetStatus(o, PENDING)

\* except Exception: call.status = FAILED; await db.commit()
\* (calls.py:255-258, 331-334, 368-371, 416-419)
Failing(o) == SetStatus(o, FAILED)

\* How a request or run ends.  A request answers 200, 400 (HTTPException of a
\* precondition), or 500 (HTTPException of the handler, or the exception the
\* handler's own commit raised); a pipeline run answers nobody.
Done(o, code) == [o EXCEPT !.pc = "done", !.resp = code]

Put(c, s, o) == op' = [op EXCEPT ![c][s] = o]

\* ------------------------------------------------------------- admission
\* The calling convention of the specification Spec: a request for a Call
\* is made only while nothing is in flight for that Call.
Admit(c, s) == ~InFlight(c) /\ LowestFree(c, s)

\* ------------------------------------------------------- transcribe_call
\* calls.py:223-226  load the Call
transcribe_call(c, s) ==
    /\ Admit(c, s)
    /\ Put(c, s, Loaded(c, "transcribe"))
    /\ UNCHANGED <<status, transcripts, analyses, action_items, queue>>
    /\ UNCHANGED rest

\* Mutant of CanTranscribe: a transcribed Call may be transcribed again.
CanTranscribe_transcribed(st) == st \in {PENDING, FAILED, TRANSCRIBED}

\* Mutant of CanTranscribe: a Call being transcribed may be started again.
CanTranscribe_transcribing(st) == st \in {PENDING, FAILED, TRANSCRIBING}

\* calls.py:228  the statuses from which transcription may start
CanTranscribe(st) == st \in {PENDING, FAILED}

\* calls.py:228-235  precondition, then commit `transcribing`
transcribe_call_check(c, s) ==
    LET o == op[c][s] IN
    /\ o.pc = "check" /\ o.kind = "transcribe"
    /\ IF ~CanTranscribe(o.cur)
       THEN /\ Put(c, s, Done(o, 400))
            /\ UNCHANGED <<status, transcripts, analyses, action_items>>
       ELSE LET n == SetStatus(o, TRANSCRIBING) IN
            /\ Commit(c, n)
            /\ Put(c, s, IF CommitOK(c, n)
                         THEN [Committed(c, n) EXCEPT !.pc = "t_call"]
                         ELSE Done(Committed(c, n), 500))
    /\ UNCHANGED queue
    /\ UNCHANGED rest

\* ---------------------------------------------------------- process_call
\* calls.py:435-438  load the Call
process_call(c, s) ==
    /\ Admit(c, s)
    /\ Put(c, s, Loaded(c, "process"))
    /\ UNCHANGED <<status, transcripts, analyses, action_items, queue>>
    /\ UNCHANGED rest

\* calls.py:440-455  precondition, commit `transcribing`, schedule the run
process_call_check(c, s) ==
    LET o == op[c][s] IN
    /\ o.pc = "check" /\ o.kind = "process"
    /\ IF ~CanTranscribe(o.cur)
       THEN /\ Put(c, s, Done(o, 400))
            /\ UNCHANGED <<status, transcripts, analyses, action_items, queue>>
       ELSE LET n == SetStatus(o, TRANSCRIBING) IN
            /\ Commit(c, n)
            /\ IF CommitOK(c, n)
               THEN /\ queue' = [queue EXCEPT ![c] = @ + 1]
                    /\ Put(c, s, Done(Committed(c, n), 200))
               ELSE /\ UNCHANGED queue
                    /\ Put(c, s, Done(Committed(c, n), 500))
    /\ UNCHANGED rest

\* ------------------------------------------------- process_call_pipeline
\* calls.py:340-346  the background task starts: own session, load the Call
process_call_pipeline(c, s) ==
    /\ queue[c] > 0
    /\ LowestFree(c, s)
    /\ queue' = [queue EXCEPT ![c] = @ - 1]
    /\ Put(c, s, [Loaded(c, "pipeline") EXCEPT !.pc = "p_begin"])
    /\ UNCHANGED <<status, transcripts, analyses, action_items>>
    /\ UNCHANGED rest

\* calls.py:348-351  commit `transcribing`; a raising commit reaches the
\* outer handler (calls.py:424-425), which only logs.
pipeline_transcribing(c, s) ==
    LET o == op[c][s]
        n == SetStatus(o, TRANSCRIBING) IN
    /\ o.pc = "p_begin"
    /\ Commit(c, n)
    /\ Put(c, s, IF CommitOK(c, n)
                 THEN [Committed(c, n) EXCEPT !.pc = "t_call"]
                 ELSE Done(Committed(c, n), 0))
    /\ UNCHANGED queue
    /\ UNCHANGED rest

\* ------------------------------------------------- the Transcription Stage
\* calls.py:238 / calls.py:354  await transcribe_audio(call.file_path): it
\* returns a text or raises; requests go to the job service unless it raises
\* before the submit.
transcribe_audio(c, s) ==
    LET o == op[c][s] IN
    /\ o.pc = "t_call"
    /\ \/ \E len \in TextLens :
            Put(c, s, [o EXCEPT !.pc = "t_save", !.tres = "ok",
                                !.text = len, !.sentT = TRUE])
       \/ \E f \in TranscribeFailures :
            Put(c, s, [o EXCEPT !.pc = "t_save", !.tres = f,
                                !.sentT = SentBeforeFailure(f)])
    /\ UNCHANGED <<status, transcripts, analyses, action_items, queue>>
    /\ UNCHANGED rest

\* Mutant of AfterTranscriptionFailure: the `return` is missing and the run
\* falls through to the Analysis Stage.
AfterTranscriptionFailure_fallthrough(o) == [o EXCEPT !.pc = "p_analyzing"]

\* Where a pipeline run goes after its Transcription Stage failed:
\* calls.py:372  return
AfterTranscriptionFailure(o) == Done(o, 0)

\* calls.py:240-259 (transcribe_call) and calls.py:356-372 (pipeline):
\* add the Transcript, set `transcribed`, commit; on any exception set
\* `failed` and commit.  An exception of the handler's commit leaves the
\* request with a 500 and the pipeline run in its outer handler.
save_transcript(c, s) ==
    LET o == op[c][s]
        ok == [SetStatus(o, TRANSCRIBED) EXCEPT !.newT = Append(@, o.text)]
        \* the session the except-branch commits
        h == IF o.tres = "ok" THEN Failing(Committed(c, ok)) ELSE Failing(o)
        good == o.tres = "ok" /\ CommitOK(c, ok)
        c1 == IF good THEN ok ELSE h
        after == Committed(c, c1) IN
    /\ o.pc = "t_save"
    /\ Commit(c, c1)
    /\ Put(c, s,
         IF o.kind = "transcribe"
         THEN Done(after, IF good THEN 200 ELSE 500)
         ELSE IF good THEN [after EXCEPT !.pc = "p_analyzing"]
              ELSE AfterTranscriptionFailure(after))
    /\ UNCHANGED queue
    /\ UNCHANGED rest

\* ----------------------------------------------------------- analyze_call
\* calls.py:265-268  load the Call
analyze_call(c, s) ==
    /\ Admit(c, s)
    /\ Put(c, s, Loaded(c, "analyze"))
    /\ UNCHANGED <<status, transcripts, analyses, action_items, queue>>
    /\ UNCHANGED rest

\* Mutant of CanAnalyze: an analyzed Call may be analyzed again.
CanAnalyze_analyzed(st) == st \in {TRANSCRIBED, FAILED, ANALYZED}

\* calls.py:275  the statuses from which analysis may start
CanAnalyze(st) == st \in {TRANSCRIBED, FAILED}

\* calls.py:270-282  load the Transcript, preconditions, commit `analyzing`
analyze_call_check(c, s) ==
    LET o == op[c][s] IN
    /\ o.pc = "check" /\ o.kind = "analyze"
    /\ IF transcripts[c] = <<>> \/ ~CanAnalyze(o.cur)
       THEN /\ Put(c, s, Done(o, 400))
            /\ UNCHANGED <<status, transcripts, analyses, action_items>>
       ELSE LET n == [SetStatus(o, ANALYZING) EXCEPT !.text = transcripts[c][1]] IN
            /\ Commit(c, n)
            /\ Put(c, s, IF CommitOK(c, n)
                         THEN [Committed(c, n) EXCEPT !.pc = "a_call"]
                         ELSE Done(Committed(c, n), 500))
    /\ UNCHANGED queue
    /\ UNCHANGED rest

\* Mutant of pipeline_analyzing: the status is set but not committed before
\* the Analysis Stage starts.
pipeline_analyzing_uncommitted(c, s) ==
    /\ op[c][s].pc = "p_analyzing"
    /\ Put(c, s, [SetStatus(op[c][s], ANALYZING) EXCEPT !.pc = "a_call"])
    /\ UNCHANGED <<status, transcripts, analyses, action_items, queue>>
    /\ UNCHANGED rest

\* calls.py:374-377  the pipeline enters the Analysis Stage: commit
\* `analyzing`; a raising commit reaches the outer handler.
pipeline_analyzing(c, s) ==
    LET o == op[c][s]
        n == SetStatus(o, ANALYZING) IN
    /\ o.pc = "p_analyzing"
    /\ Commit(c, n)
    /\ Put(c, s, IF CommitOK(c, n)
                 THEN [Committed(c, n) EXCEPT !.pc = "a_call"]
                 ELSE Done(Committed(c, n), 0))
    /\ UNCHANGED queue
    /\ UNCHANGED rest

\* analysis.py:302  the short-circuit of run_full_analysis
TooShort(len) == len < MIN_ANALYSIS_LENGTH

\* calls.py:288 / calls.py:380-388  await run_full_analysis(raw_text, ...).
\* The pipeline reads the Transcript back first.  A short text returns the
\* minimal record without a language-model call; otherwise the sub-analyses
\* call the model (or fail before the request: no API key) and the function
\* returns a record whose action_items value has entries of any shape, or
\* raises (validate_analysis, the summary and the log line are unguarded).
run_full_analysis(c, s) ==
    LET o == op[c][s]
        found == o.kind = "analyze" \/ transcripts[c] # <<>>
        len == IF o.kind = "analyze" THEN o.text
               ELSE IF found THEN transcripts[c][1] ELSE 0
        n == [o EXCEPT !.pc = "a_save", !.text = len] IN
    /\ o.pc = "a_call"
    /\ IF ~found
       THEN Put(c, s, [n EXCEPT !.ares = "raise"])
       ELSE IF TooShort(len)
       THEN Put(c, s, [n EXCEPT !.ares = "ok"])
       ELSE \/ Put(c, s, [n EXCEPT !.ares = "ok"])
            \/ Put(c, s, [n EXCEPT !.ares = "raise", !.sentL = TRUE])
            \/ \E l \in ItemLists :
                 /\ action_items[c] + Len(l) <= MaxRows
                 /\ Put(c, s, [n EXCEPT !.ares = "ok", !.sentL = TRUE, !.items = l])
    /\ UNCHANGED <<status, transcripts, analyses, action_items, queue>>
    /\ UNCHANGED rest

\* calls.py:313-323 / calls.py:400-410  the loop over action_items_data adds
\* one ActionItem per entry until item_data.get raises on an entry that is
\* no object: the number of rows added, and whether the loop raised.
Added(l) == Cardinality({i \in 1..Len(l) : \A j \in 1..i : l[j] = "dict"})
LoopRaises(l) == Added(l) < Len(l)

\* The session the except-branch of the Analysis Stage commits after the
\* loop raised: calls.py:331-334, calls.py:416-419.
AfterLoopRaised(staged) == Failing(staged)

\* calls.py:289-335 (analyze_call) and calls.py:389-420 (pipeline): add the
\* CallAnalysis (analyze_call updates an existing one instead), add the
\* ActionItems, set `analyzed`, commit; on any exception set `failed` and
\* commit.
save_analysis(c, s) ==
    LET o == op[c][s]
        update == o.kind = "analyze" /\ analyses[c] > 0
        staged == [o EXCEPT !.newA = IF update THEN 0 ELSE 1,
                            !.newI = Added(o.items)]
        ok == SetStatus(staged, ANALYZED)
        good == o.ares = "ok" /\ ~LoopRaises(o.items) /\ CommitOK(c, ok)
        h == IF o.ares # "ok" THEN Failing(o)
             ELSE IF LoopRaises(o.items) THEN AfterLoopRaised(staged)
             ELSE Failing(Committed(c, ok))
        c1 == IF good THEN ok ELSE h
        after == Committed(c, c1) IN
    /\ o.pc = "a_save"
    /\ Commit(c, c1)
    /\ Put(c, s, Done(after, IF o.kind = "pipeline" THEN 0
                             ELSE IF good THEN 200 ELSE 500))
    /\ UNCHANGED queue
    /\ UNCHANGED rest

\* ------------------------------------------------------- get_call_status
\* Mutant of get_call_status: a transcribed Call counts as processing.
get_call_status_transcribed(c) ==
    [status |-> status[c],
     has_transcript |-> status[c] \in {TRANSCRIBED, ANALYZING, ANALYZED}
                          /\ transcripts[c] # <<>>,
     has_analysis |-> status[c] = ANALYZED /\ analyses[c] > 0,
     action_items_count |-> IF status[c] = ANALYZED THEN action_items[c] ELSE 0,
     is_processing |-> status[c] \in {TRANSCRIBING, TRANSCRIBED, ANALYZING},
     is_complete |-> status[c] = ANALYZED,
     is_failed |-> status[c] = FAILED]

\* calls.py:458-496  the answer of the status read for a Call: the rows are
\* looked up only in the statuses that should have them, the three flags are
\* computed from the status alone; nothing is written.
get_call_status(c) ==
    [status |-> status[c],
     has_transcript |-> status[c] \in {TRANSCRIBED, ANALYZING, ANALYZED}
                          /\ transcripts[c] # <<>>,
     has_analysis |-> status[c] = ANALYZED /\ analyses[c] > 0,
     action_items_count |-> IF status[c] = ANALYZED THEN action_items[c] ELSE 0,
     is_processing |-> status[c] \in {TRANSCRIBING, ANALYZING},
     is_complete |-> status[c] = ANALYZED,
     is_failed |-> status[c] = FAILED]

Next ==
    \E c \in Calls, s \in Slots :
        \/ transcribe_call(c, s)
        \/ transcribe_call_check(c, s)
        \/ analyze_call(c, s)
        \/ analyze_call_check(c, s)
        \/ process_call(c, s)
        \/ process_call_check(c, s)
        \/ process_call_pipeline(c, s)
        \/ pipeline_transcribing(c, s)
        \/ transcribe_audio(c, s)
        \/ save_transcript(c, s)
        \/ pipeline_analyzing(c, s)
        \/ run_full_analysis(c, s)
        \/ save_analysis(c, s)

Spec == Init /\ [][Next]_vars

\* --------------------------------------------- overlapping process requests
\* Pipeline runs of a Call that are scheduled or in progress.
RunsInProgress(c) ==
    queue[c] + Cardinality({s \in Slots : op[c][s].kind = "pipeline" /\ ~Free(c, s)})

\* Process requests of a Call that loaded it and have not yet decided.
Deciding(c) == {s \in Slots : op[c][s].kind = "process" /\ op[c][s].pc = "check"}

\* The Call the overlapping requests are made for.
RaceCalls == {"c1"}

\* calls.py:435-438  load the Call, with no calling convention: the request
\* arrives while other requests and runs of the Call are in flight.  The
\* history variable records that it loaded the Call while another process
\* request had loaded it and not yet committed.
process_call_any(c, s) ==
    /\ LowestFree(c, s)
    /\ RunsInProgress(c) + Cardinality(Deciding(c)) < MaxRuns
    /\ Put(c, s, Loaded(c, "process"))
    /\ overlapped' = [overlapped EXCEPT ![c] =
           @ \/ Deciding(c) # {}]
    /\ UNCHANGED <<status, transcripts, analyses, action_items, queue, rb, job, pj, fa, va>>

RaceNext ==
    \E c \in RaceCalls, s \in Slots :
        \/ process_call_any(c, s)
        \/ process_call_check(c, s)
        \/ process_call_pipeline(c, s)
        \/ pipeline_transcribing(c, s)
        \/ transcribe_audio(c, s)
        \/ save_transcript(c, s)
        \/ pipeline_analyzing(c, s)
        \/ run_full_analysis(c, s)
        \/ save_analysis(c, s)

SpecRace == Init /\ [][RaceNext]_vars

\* --------------------------- requests overlapping a pipeline run of the Call
\* calls.py:223-226  load the Call, with no calling convention: the transcribe
\* request arrives while other requests and runs of the Call are in flight.
transcribe_call_any(c, s) ==
    /\ LowestFree(c, s)
    /\ Put(c, s, Loaded(c, "transcribe"))
    /\ UNCHANGED <<status, transcripts, analyses, action_items, queue>>
    /\ UNCHANGED rest

\* calls.py:265-268  load the Call, with no calling convention: the analyze
\* request arrives while other requests and runs of the Call are in flight.
analyze_call_any(c, s) ==
    /\ LowestFree(c, s)
    /\ Put(c, s, Loaded(c, "analyze"))
    /\ UNCHANGED <<status, transcripts, analyses, action_items, queue>>
    /\ UNCHANGED rest

MixedNext ==
    \E c \in RaceCalls, s \in Slots :
        \/ transcribe_call_any(c, s)
        \/ transcribe_call_check(c, s)
        \/ analyze_call_any(c, s)
        \/ analyze_call_check(c, s)
        \/ process_call_any(c, s)
        \/ process_call_check(c, s)
        \/ process_call_pipeline(c, s)
        \/ pipeline_transcribing(c, s)
        \/ transcribe_audio(c, s)
        \/ save_transcript(c, s)
        \/ pipeline_analyzing(c, s)
        \/ run_full_analysis(c, s)
        \/ save_analysis(c, s)

SpecMixed == Init /\ [][MixedNext]_vars


\* ----------------------------------------------------- the request functions
\* One HTTP exchange with a service: no answer within the client's timeout,
\* no connection, or a response with a status and maybe a retry-after header.
Exchange(kind, code, hint) == [kind |-> kind, code |-> code, retry_after |-> hint]
Exchanges ==
    {Exchange("timeout", 0, NoHint), Exchange("connect", 0, NoHint),
     Exchange("response", 200, NoHint)}
    \cup {Exchange("response", code, NoHint) : code \in ErrorCodes}
    \cup {Exchange("response", 429, h) : h \in Hints}

\* transcription.py:25-47  _make_replicate_request: the exception it raises
\* for an exchange, NoExc when it returns response.json().
make_replicate_request(x) ==
    IF x.kind = "timeout" THEN TimeoutException
    ELSE IF x.kind = "connect" THEN ConnectError
    ELSE IF x.code = 429
    THEN RateLimitError(IF x.retry_after = NoHint THEN DEFAULT_RETRY_AFTER
                        ELSE x.retry_after)
    ELSE IF x.code >= 400
    THEN TranscriptionError(x.code, x.code \in SERVER_ERRORS)
    ELSE NoExc

\* analysis.py:23-42  _make_openrouter_request
make_openrouter_request(x) ==
    IF x.kind = "timeout" THEN TimeoutException
    ELSE IF x.kind = "connect" THEN ConnectError
    ELSE IF x.code = 429
    THEN RateLimitError(IF x.retry_after = NoHint THEN DEFAULT_RETRY_AFTER
                        ELSE x.retry_after)
    ELSE IF x.code >= 400
    THEN AnalysisError(x.code, x.code \in SERVER_ERRORS)
    ELSE NoExc

\* What an arbitrary operation handed to the executor may raise.
FuncRaises ==
    {TimeoutException, ConnectError, TranscriptionError(DEFAULT_STATUS_CODE, TRUE)}
    \cup {RateLimitError(h) : h \in Hints \cup {NoHint}}
    \cup {HTTPStatusError(code, NoHint) : code \in ErrorCodes}
    \cup {HTTPStatusError(429, h) : h \in Hints}

\* The exceptions one invocation of f may raise.
Raises(f) ==
    IF f = "func" THEN FuncRaises
    ELSE IF f = "llm" THEN {make_openrouter_request(x) : x \in Exchanges} \ {NoExc}
    ELSE {make_replicate_request(x) : x \in Exchanges} \ {NoExc}

\* The values one invocation of f may return: the prediction of a submit
\* (with or without urls.get), the status document of a poll (the output of a
\* succeeded job, the error of a failed one, Absent or "none" for a key the
\* document does not have), the completion of the language model, the value of an
\* arbitrary operation.
Returns(f) ==
    IF f = "submit"
    THEN {[result |-> r, output |-> Absent, error |-> "none"] : r \in {"url", "nourl"}}
    ELSE IF f = "poll"
    THEN {[result |-> st, output |-> Absent, error |-> "none"] :
             st \in JobStatuses \ {"succeeded"}}
         \cup {[result |-> "succeeded", output |-> sh, error |-> "none"] :
                  sh \in OutputShapes}
         \cup {[result |-> "failed", output |-> Absent, error |-> m] :
                  m \in UpstreamErrors}
    ELSE {[result |-> "value", output |-> Absent, error |-> "none"]}

\* ------------------------------------------------------ the Backoff Executor
Min(a, b) == IF a < b THEN a ELSE b

RECURSIVE Pow(_, _)
Pow(b, n) == IF n = 0 THEN 1 ELSE b * Pow(b, n - 1)

\* error_handling.py:48-71  retry_with_backoff(f, max_retries=mr,
\* base_delay=bd, max_delay=md) enters its loop.
Started(f, mr, bd, md) ==
    [NoCall EXCEPT !.func = f, !.max_retries = mr, !.base_delay = bd,
                   !.max_delay = md, !.exponential_base = EXPONENTIAL_BASE,
                   !.pc = "call"]

\* error_handling.py:74  except retryable_exceptions
Caught(e) == e.cls \in RETRYABLE_EXCEPTIONS

\* Mutant of LastAttempt: one more attempt is made before giving up.
LastAttempt_late(r) == r.attempt = r.max_retries + 1

\* error_handling.py:77  if attempt == max_retries: raise
LastAttempt(r) == r.attempt = r.max_retries

\* error_handling.py:83, 86-88  the exception carries a wait hint the executor
\* uses: a RateLimitError whose retry_after is truthy (neither None nor 0), or
\* an HTTPStatusError 429 whose response has a retry-after header.
HasHint(e) ==
    \/ e.cls = "RateLimitError" /\ e.retry_after # NoHint /\ e.retry_after # 0
    \/ e.cls = "HTTPStatusError" /\ e.status_code = 429 /\ e.retry_after # NoHint

\* Mutant of Reraised: every caught HTTPStatusError is retried.
Reraised_never(e) == FALSE

\* error_handling.py:85, 90-92  an HTTPStatusError whose status is not retried
Reraised(e) == e.cls = "HTTPStatusError" /\ e.status_code \notin RETRY_STATUS

\* Mutant of ComputedDelay: the exponent of the first retry is 1.
ComputedDelay_fromOne(r) == r.base_delay * Pow(r.exponential_base, r.attempt + 1)

\* error_handling.py:82  base_delay * (exponential_base ** attempt)
ComputedDelay(r) == r.base_delay * Pow(r.exponential_base, r.attempt)

\* Mutant of Delay: the delay is not capped by max_delay.
Delay_uncapped(r, e) == IF HasHint(e) THEN e.retry_after ELSE ComputedDelay(r)

\* error_handling.py:82-94  the delay slept after attempt r.attempt raised e
Delay(r, e) == Min(IF HasHint(e) THEN e.retry_after ELSE ComputedDelay(r), r.max_delay)

\* error_handling.py:72-94  the executor after one invocation of the operation
\* that raised e (NoExc: it returned v).  `hinted` records that the delay of
\* some sleep of this call was taken from a wait hint.
AfterInvoke(r, e, v) ==
    LET r1 == [r EXCEPT !.invoked = @ + 1, !.out = e] IN
    IF e = NoExc
    THEN [r1 EXCEPT !.pc = "returned", !.result = v.result, !.output = v.output,
                    !.error = v.error]
    ELSE IF ~Caught(e) THEN [r1 EXCEPT !.pc = "raised", !.exc = e]
    ELSE LET r2 == [r1 EXCEPT !.last_exception = e] IN
         IF LastAttempt(r) \/ Reraised(e)
         THEN [r2 EXCEPT !.pc = "raised", !.exc = e]
         ELSE [r2 EXCEPT !.pc = "sleep", !.delay = Delay(r, e),
                         !.hinted = @ \/ HasHint(e)]

\* At most MaxFailedPolls polls of one transcribe_audio call end in an
\* exception.
PollMayFail == job.pc = "polling" => job.swallowed < MaxFailedPolls

\* error_handling.py:72-94  one pass of the loop up to its sleep:
\* return await func(*args, **kwargs), or handle what it raised
invoke_func ==
    /\ rb.pc = "call"
    /\ \/ \E v \in Returns(rb.func) : rb' = AfterInvoke(rb, NoExc, v)
       \/ \E e \in Raises(rb.func) :
            /\ AfterInvoke(rb, e, e).pc = "raised" => PollMayFail
            /\ rb' = AfterInvoke(rb, e, e)
    /\ UNCHANGED <<status, transcripts, analyses, action_items, queue, op,
                   overlapped, job, pj, fa, va>>

\* error_handling.py:99  await asyncio.sleep(delay), then the next attempt
backoff_sleep ==
    /\ rb.pc = "sleep"
    /\ rb' = [rb EXCEPT !.sleeps = Append(@, rb.delay), !.attempt = @ + 1,
                        !.pc = "call"]
    /\ UNCHANGED <<status, transcripts, analyses, action_items, queue, op,
                   overlapped, job, pj, fa, va>>

\* The calls of retry_with_backoff: an arbitrary operation with any
\* parameters, and the three calls the services make (transcription.py:112,
\* transcription.py:131, analysis.py:70).
RetryCalls ==
    {Started("func", mr, bd, md) :
        mr \in 0..MaxRetries, bd \in BaseDelays, md \in MaxDelays}
    \cup {Started("submit", SUBMIT_MAX_RETRIES, SUBMIT_BASE_DELAY, MAX_DELAY),
          Started("poll", POLL_MAX_RETRIES, POLL_BASE_DELAY, MAX_DELAY),
          Started("llm", LLM_MAX_RETRIES, LLM_BASE_DELAY, MAX_DELAY)}

RetryInit ==
    /\ StoreInit
    /\ job = NoJob
    /\ rb \in RetryCalls
    /\ pj = NoFunc /\ fa = NoFunc /\ va = NoFunc

RetryNext == invoke_func \/ backoff_sleep

SpecRetry == RetryInit /\ [][RetryNext]_vars

\* The event loop resumes a coroutine whose operation or sleep has finished.
SpecRetryFair == SpecRetry /\ WF_vars(RetryNext)


\* ------------------------------------------------------------ the Job Poller
\* History kept next to the variables of transcribe_audio: `fatal`, a fatal
\* service failure has been observed (an HTTP 4xx other than 429, or a job
\* that failed or was canceled); `observed`, the terminal status a poll
\* returned; `exhausted`, a swallowed poll had used all its attempts;
\* `waits`, `inprogress`, `swallowed` count the poll intervals slept, the
\* in-progress statuses seen and the polls that ended in an exception.
FatalHTTP(e) == e.status_code >= 400 /\ e.status_code < 500 /\ e.status_code # 429
Raise(j, e) == [j EXCEPT !.pc = "raised", !.error = e]

\* transcription.py:61-67  the API key and the audio file are checked before
\* any request is made
ta_validate ==
    /\ job.pc = "validate"
    /\ \/ job' = Raise(job, TranscriptionError(DEFAULT_STATUS_CODE, FALSE))
       \/ job' = Raise(job, Exc("AudioValidationError", 400, NoHint, FALSE))
       \/ job' = [job EXCEPT !.pc = "submit"]
    /\ UNCHANGED <<status, transcripts, analyses, action_items, queue, op,
                   overlapped, rb, pj, fa, va>>

\* transcription.py:112-117  submit the job through the executor
ta_submit ==
    /\ job.pc = "submit"
    /\ rb' = Started("submit", SUBMIT_MAX_RETRIES, SUBMIT_BASE_DELAY, MAX_DELAY)
    /\ job' = [job EXCEPT !.pc = "submitting"]
    /\ UNCHANGED <<status, transcripts, analyses, action_items, queue, op,
                   overlapped, pj, fa, va>>

\* transcription.py:112-121  the submit call is over: its exception leaves
\* transcribe_audio; a prediction without urls.get raises TranscriptionError
ta_submitted ==
    /\ job.pc = "submitting"
    /\ rb.pc \in {"returned", "raised"}
    /\ job' = IF rb.pc = "raised"
              THEN [Raise(job, rb.exc) EXCEPT !.fatal = FatalHTTP(rb.exc)]
              ELSE IF rb.result = "nourl"
              THEN Raise(job, TranscriptionError(DEFAULT_STATUS_CODE, FALSE))
              ELSE [job EXCEPT !.pc = "loop"]
    /\ rb' = NoCall
    /\ UNCHANGED <<status, transcripts, analyses, action_items, queue, op,
                   overlapped, pj, fa, va>>

\* Mutant of ta_poll: the first poll is made without a sleep before it.
ta_poll_skipfirst ==
    /\ job.pc = "loop"
    /\ job' = [job EXCEPT !.pc = "polling",
                          !.waits = IF job.poll_count = 0 THEN @ ELSE @ + 1]
    /\ rb' = Started("poll", POLL_MAX_RETRIES, POLL_BASE_DELAY, MAX_DELAY)
    /\ UNCHANGED <<status, transcripts, analyses, action_items, queue, op,
                   overlapped, pj, fa, va>>

\* Mutant of ta_poll: a poll is given the retries of the submission.
ta_poll_submitBudget ==
    /\ job.pc = "loop"
    /\ job' = [job EXCEPT !.pc = "polling", !.waits = @ + 1]
    /\ rb' = Started("poll", SUBMIT_MAX_RETRIES, POLL_BASE_DELAY, MAX_DELAY)
    /\ UNCHANGED <<status, transcripts, analyses, action_items, queue, op,
                   overlapped, pj, fa, va>>

\* transcription.py:127-136  one more iteration: sleep poll_interval, then
\* poll the job through the executor
ta_poll ==
    /\ job.pc = "loop"
    /\ job' = [job EXCEPT !.pc = "polling", !.waits = @ + 1]
    /\ rb' = Started("poll", POLL_MAX_RETRIES, POLL_BASE_DELAY, MAX_DELAY)
    /\ UNCHANGED <<status, transcripts, analyses, action_items, queue, op,
                   overlapped, pj, fa, va>>

\* Mutant of Continue: the loop makes one iteration more than max_polls.
Continue_extra(j) ==
    IF j.poll_count + 1 < MAX_POLLS + 1
    THEN [j EXCEPT !.pc = "loop", !.poll_count = @ + 1]
    ELSE Raise(j, TranscriptionError(DEFAULT_STATUS_CODE, TRUE))

\* transcription.py:127, 192-195  the next value of range(max_polls), or the
\* timeout error (retryable=True) after the last one
Continue(j) ==
    IF j.poll_count + 1 < MAX_POLLS
    THEN [j EXCEPT !.pc = "loop", !.poll_count = @ + 1]
    ELSE Raise(j, TranscriptionError(DEFAULT_STATUS_CODE, TRUE))

\* Mutant of Swallow: the exception of a poll leaves transcribe_audio.
Swallow_raise(j, r) == [Raise(j, r.exc) EXCEPT !.fatal = @ \/ FatalHTTP(r.exc)]

\* Mutant of Swallow: a failed poll is repeated in the same iteration.
Swallow_uncounted(j, r) ==
    [j EXCEPT !.pc = "loop", !.swallowed = @ + 1,
              !.exhausted = @ \/ r.invoked = r.max_retries + 1,
              !.fatal = @ \/ FatalHTTP(r.exc)]

\* transcription.py:137-139  except Exception: log the failed poll, continue
Swallow(j, r) ==
    Continue([j EXCEPT !.swallowed = @ + 1,
                       !.exhausted = @ \/ r.invoked = r.max_retries + 1,
                       !.fatal = @ \/ FatalHTTP(r.exc)])

\* transcription.py:141-190  a status that is none of succeeded, failed,
\* canceled: the loop goes on
InProgress(j) == Continue([j EXCEPT !.inprogress = @ + 1])

\* Mutant of JobEnded: a failed or canceled job is polled again.
JobEnded_polled(j, r) == InProgress(j)

\* transcription.py:181-186  status `failed`: raise TranscriptionError(
\* f"Transcription failed: {error_msg}") with error_msg the document's error,
\* "Unknown error" without one; status `canceled`: raise TranscriptionError(
\* "Transcription was canceled").  Both with the default retryable=False.
JobEnded(j, r) ==
    [Raise(j, TranscriptionError(DEFAULT_STATUS_CODE, FALSE))
        EXCEPT !.fatal = TRUE, !.observed = r.result,
               !.message = IF r.result = "failed"
                           THEN <<"Transcription failed: ",
                                  IF r.error = "none" THEN "Unknown error"
                                  ELSE r.error>>
                           ELSE <<"Transcription was canceled">>]

\* Mutant of extract: the key `text` is preferred to `transcription`.
extract_textFirst(output) ==
    LET o == IF output = Absent THEN Obj(EmptyDict) ELSE output IN
    IF o.type = "string"
    THEN [raised |-> NoExc, text |-> o, segments |-> List(<<>>)]
    ELSE IF o.type # "object"
    THEN [raised |-> AttributeError, text |-> Absent, segments |-> Absent]
    ELSE LET transcript_text == get(o.d, "text", get(o.d, "transcription", Str("")))
             segments == get(o.d, "segments", List(<<>>)) IN
         IF transcript_text.type # "string" \/ segments.type # "list"
         THEN [raised |-> TypeError, text |-> Absent, segments |-> Absent]
         ELSE [raised |-> NoExc, text |-> transcript_text, segments |-> segments]

\* transcription.py:143-179  the transcript taken from the output of a
\* succeeded job ({} for a status document without the key): a string is the
\* text, with no segments; of anything else .get is called, which raises
\* AttributeError unless it is an object; the text is the value under
\* `transcription`, else under `text`, else "", the segments the value under
\* `segments`, else []; len() for the log line raises TypeError on a text or
\* on segments that are null.
extract(output) ==
    LET o == IF output = Absent THEN Obj(EmptyDict) ELSE output IN
    IF o.type = "string"
    THEN [raised |-> NoExc, text |-> o, segments |-> List(<<>>)]
    ELSE IF o.type # "object"
    THEN [raised |-> AttributeError, text |-> Absent, segments |-> Absent]
    ELSE LET transcript_text == get(o.d, "transcription", get(o.d, "text", Str("")))
             segments == get(o.d, "segments", List(<<>>)) IN
         IF transcript_text.type # "string" \/ segments.type # "list"
         THEN [raised |-> TypeError, text |-> Absent, segments |-> Absent]
         ELSE [raised |-> NoExc, text |-> transcript_text, segments |-> segments]

\* transcription.py:131-190  the poll is over: an exception is swallowed;
\* `succeeded` returns the transcript (output.get raises on an output that
\* is neither a string nor an object); `failed` and `canceled` raise
\* TranscriptionError; any other status goes on polling
ta_polled ==
    /\ job.pc = "polling"
    /\ rb.pc \in {"returned", "raised"}
    /\ job' = IF rb.pc = "raised" THEN Swallow(job, rb)
              ELSE IF rb.result = "succeeded"
              THEN LET x == extract(rb.output) IN
                   IF x.raised # NoExc
                   THEN [Raise(job, x.raised) EXCEPT !.observed = rb.result,
                                                     !.output = rb.output]
                   ELSE [job EXCEPT !.pc = "returned", !.result = "transcript",
                                    !.output = rb.output,
                                    !.text = x.text, !.segments = x.segments,
                                    !.observed = rb.result]
              ELSE IF rb.result \in {"failed", "canceled"}
              THEN JobEnded(job, rb)
              ELSE InProgress(job)
    /\ rb' = NoCall
    /\ UNCHANGED <<status, transcripts, analyses, action_items, queue, op,
                   overlapped, pj, fa, va>>

PollerInit ==
    /\ StoreInit
    /\ rb = NoCall
    /\ job = [NoJob EXCEPT !.pc = "validate"]
    /\ pj = NoFunc /\ fa = NoFunc /\ va = NoFunc

PollerNext ==
    \/ ta_validate
    \/ ta_submit
    \/ ta_submitted
    \/ ta_poll
    \/ ta_polled
    \/ invoke_func
    \/ backoff_sleep

SpecPoller == PollerInit /\ [][PollerNext]_vars

\* The event loop resumes transcribe_audio whenever its sleep or request ends.
SpecPollerFair == SpecPoller /\ WF_vars(PollerNext)

\* ------------------------------------------------- the payload extraction
\* The outputs of a succeeded prediction the extraction is applied to: no
\* output key, null, an array, a string, and the objects with `transcription`,
\* `text` and `segments` each missing, null, empty or filled.
Payloads ==
    {Absent, None, List(<<>>), Str(""), Str("hello")}
    \cup {Obj(Dict([transcription |-> a, text |-> b, segments |-> c])) :
             a \in {Absent, None, Str(""), Str("hello")},
             b \in {Absent, None, Str(""), Str("other")},
             c \in {Absent, None, List(<<>>), List(<<Str("segment")>>)}}

\* transcribe_audio slept one interval and its first poll returned the
\* status document of a succeeded job.
ExtractInit ==
    /\ StoreInit
    /\ job = [NoJob EXCEPT !.pc = "polling", !.waits = 1]
    /\ rb \in {AfterInvoke(Started("poll", POLL_MAX_RETRIES, POLL_BASE_DELAY, MAX_DELAY),
                            NoExc,
                            [result |-> "succeeded", output |-> p, error |-> "none"]) :
                   p \in Payloads}
    /\ pj = NoFunc /\ fa = NoFunc /\ va = NoFunc

SpecExtract == ExtractInit /\ [][ta_polled]_vars

\* ------------------------------------------------------ the response parser
\* A response of the language model is a sequence of tokens: a stray brace,
\* a complete JSON object with members ("objA", "objB": they begin with `{`
\* and end with `}`), a JSON array, a code fence of three backquotes, the word
\* json, a newline
\* (the whitespace), other prose.
Tokens == {"{", "}", "objA", "objB", "array", "fence", "json", "NL", "text"}

\* The responses: every text of at most MaxLen tokens, and the texts of at
\* most MaxBlocks fenced blocks.
MaxLen == 3
MaxBlocks == 2
Blocks ==
    {<<"fence">> \o tag \o nl \o body \o <<"fence">> :
        tag \in {<<>>, <<"json">>, <<"text">>}, nl \in {<<>>, <<"NL">>},
        body \in {<<"objA">>, <<"objB">>, <<"text">>}}
RECURSIVE BlockTexts(_)
BlockTexts(n) ==
    IF n = 0 THEN {<<>>}
    ELSE {b \o t : b \in Blocks, t \in BlockTexts(n - 1)}
Texts ==
    UNION {[1..n -> Tokens] : n \in 0..MaxLen}
    \cup UNION {BlockTexts(n) : n \in 1..MaxBlocks}

\* The default argument: None, or an object of the caller.
Defaults == {"None", "default"}

\* json.loads raised json.JSONDecodeError.
JSONDecodeError == "JSONDecodeError"
\* The JSON objects; the other JSON value is the array.
Objects == {"objA", "objB", "{}"}

\* str.strip(): the text without its leading and trailing whitespace
RECURSIVE strip(_)
strip(t) ==
    IF t = <<>> THEN t
    ELSE IF t[1] = "NL" THEN strip(Tail(t))
    ELSE IF t[Len(t)] = "NL" THEN strip(SubSeq(t, 1, Len(t) - 1))
    ELSE t

\* json.loads(t): the value of a text that is one JSON value with whitespace
\* around it (an object with members, an array, or the empty object written
\* as two braces with whitespace between them), JSONDecodeError otherwise.
json_loads(t) ==
    LET u == strip(t) IN
    IF Len(u) = 1 /\ u[1] \in {"objA", "objB", "array"} THEN u[1]
    ELSE IF /\ Len(u) >= 2 /\ u[1] = "{" /\ u[Len(u)] = "}"
            /\ \A i \in 2..(Len(u) - 1) : u[i] = "NL"
    THEN "{}"
    ELSE JSONDecodeError

\* t.find(pat, start): the offset (from 0) of the first occurrence of the
\* tokens pat at or after start, -1 without one
find(t, pat, start) ==
    LET at == {i \in start..(Len(t) - Len(pat)) :
                  SubSeq(t, i + 1, i + Len(pat)) = pat} IN
    IF at = {} THEN -1 ELSE CHOOSE i \in at : \A k \in at : i <= k

\* t.find("{"): the first token whose first character is `{`
find_open(t) ==
    LET at == {i \in 0..(Len(t) - 1) : t[i + 1] \in {"{", "objA", "objB"}} IN
    IF at = {} THEN -1 ELSE CHOOSE i \in at : \A k \in at : i <= k

\* t.rfind("}"): the last token whose last character is `}`
rfind_close(t) ==
    LET at == {i \in 0..(Len(t) - 1) : t[i + 1] \in {"}", "objA", "objB"}} IN
    IF at = {} THEN -1 ELSE CHOOSE i \in at : \A k \in at : k <= i

\* t[start:end] for 0 <= start <= end <= len(t)
slice(t, start, end) == SubSeq(t, start + 1, end)

\* A strategy that made no json.loads call.
Skipped == "skipped"

\* analysis.py:94-98  json.loads(response)
direct_parse(response) == json_loads(response)

\* analysis.py:101-108  the text between the first fence tagged json and the
\* next fence
json_block(response) ==
    IF find(response, <<"fence", "json">>, 0) = -1 THEN Skipped
    ELSE LET start == find(response, <<"fence", "json">>, 0) + 2
             end == find(response, <<"fence">>, start) IN
         IF end > start THEN json_loads(strip(slice(response, start, end)))
         ELSE Skipped

\* analysis.py:111-122  the text between the first fence (from the line after
\* it, when a newline follows anywhere) and the next fence
code_block(response) ==
    IF find(response, <<"fence">>, 0) = -1 THEN Skipped
    ELSE LET start0 == find(response, <<"fence">>, 0) + 1
             newline == find(response, <<"NL">>, start0)
             start == IF newline # -1 THEN newline + 1 ELSE start0
             end == find(response, <<"fence">>, start) IN
         IF end > start THEN json_loads(strip(slice(response, start, end)))
         ELSE Skipped

\* analysis.py:125-131  the text from the first `{` to the last `}`
braces(response) ==
    LET start == find_open(response)
        end == rfind_close(response) + 1 IN
    IF start # -1 /\ end > start THEN json_loads(slice(response, start, end))
    ELSE Skipped

\* Whether a strategy returned a value.
Parsed(r) == r \notin {Skipped, JSONDecodeError}

\* The strategies that called json.loads, after strategy k ended with r.
Attempted(tried, k, r) == IF r = Skipped THEN tried ELSE Append(tried, k)

\* Mutant of parse_json_response: the first fenced block is tried before the
\* block tagged json.
parse_json_response_swapped(response, default) ==
    LET d == IF default = "None" THEN "{}" ELSE default
        r1 == direct_parse(response)
        r2 == json_block(response)
        r3 == code_block(response)
        r4 == braces(response)
        t3 == Attempted(<<1>>, 3, r3)
        t2 == Attempted(t3, 2, r2)
        t4 == Attempted(t2, 4, r4) IN
    IF response = <<>> THEN [value |-> d, tried |-> <<>>, from |-> 0]
    ELSE IF Parsed(r1) THEN [value |-> r1, tried |-> <<1>>, from |-> 1]
    ELSE IF Parsed(r3) THEN [value |-> r3, tried |-> t3, from |-> 3]
    ELSE IF Parsed(r2) THEN [value |-> r2, tried |-> t2, from |-> 2]
    ELSE IF Parsed(r4) THEN [value |-> r4, tried |-> t4, from |-> 4]
    ELSE [value |-> d, tried |-> t4, from |-> 0]

\* analysis.py:84-134  parse_json_response(response, default): the value
\* returned, the strategies that called json.loads before it returned, and
\* the strategy the value is from (0: the default).  An empty response
\* returns the default at once; a strategy whose json.loads raises
\* JSONDecodeError, or that calls none, falls through to the next.
parse_json_response(response, default) ==
    LET d == IF default = "None" THEN "{}" ELSE default
        r1 == direct_parse(response)
        r2 == json_block(response)
        r3 == code_block(response)
        r4 == braces(response)
        t2 == Attempted(<<1>>, 2, r2)
        t3 == Attempted(t2, 3, r3)
        t4 == Attempted(t3, 4, r4) IN
    IF response = <<>> THEN [value |-> d, tried |-> <<>>, from |-> 0]
    ELSE IF Parsed(r1) THEN [value |-> r1, tried |-> <<1>>, from |-> 1]
    ELSE IF Parsed(r2) THEN [value |-> r2, tried |-> t2, from |-> 2]
    ELSE IF Parsed(r3) THEN [value |-> r3, tried |-> t3, from |-> 3]
    ELSE IF Parsed(r4) THEN [value |-> r4, tried |-> t4, from |-> 4]
    ELSE [value |-> d, tried |-> t4, from |-> 0]

\* analysis.py:84-134  the call runs to its return
parse_json ==
    /\ pj.pc = "call"
    /\ LET r == parse_json_response(pj.response, pj.default) IN
         pj' = [pj EXCEPT !.pc = "returned", !.value = r.value,
                          !.tried = r.tried, !.from = r.from]
    /\ UNCHANGED <<status, transcripts, analyses, action_items, queue, op,
                   overlapped, rb, job, fa, va>>

ParseInit ==
    /\ StoreInit
    /\ rb = NoCall
    /\ job = NoJob
    /\ pj \in {[pc |-> "call", response |-> t, default |-> d, value |-> "none",
                 tried |-> <<>>, from |-> 0] : t \in Texts, d \in Defaults}
    /\ fa = NoFunc /\ va = NoFunc

SpecParse == ParseInit /\ [][parse_json]_vars

\* ------------------------------------------------------ validate_analysis
\* error_handling.py:243
LOW_CONFIDENCE_THRESHOLD == 50
\* error_handling.py:277-278  the confidence assumed for an absent key
ASSUMED_CONFIDENCE == 50
\* error_handling.py:255
required_fields == <<"performance_score", "call_reason", "call_outcome">>
\* error_handling.py:261-264
confidence_fields ==
    <<<<"call_reason_confidence", "call_reason">>,
      <<"call_outcome_confidence", "call_outcome">>>>

\* The confidences a classification may carry, and the records handed to
\* validate_analysis: each required field and each confidence absent, null or
\* a value.
Confidences == {Num(n) : n \in {0, 1, 30, 49, 50, 90, 100}} \cup {None, Absent}
Analyses ==
    {Dict([performance_score |-> ps, call_reason |-> cr, call_outcome |-> co,
           call_reason_confidence |-> rc, call_outcome_confidence |-> oc]) :
        ps \in {Num(0), Num(72), None, Absent},
        cr \in {Str("complaint"), None, Absent},
        co \in {Str("resolved"), None, Absent},
        rc \in Confidences, oc \in Confidences}

\* error_handling.py:256-258  one warning per required field that is absent
\* or None, in the order of required_fields; a warning is the sequence of the
\* pieces of its f-string
missing_warnings(analysis) ==
    LET missing == SelectSeq(required_fields,
                       LAMBDA f : f \notin DOMAIN analysis \/ analysis[f] = None) IN
    [i \in 1..Len(missing) |-> <<Str("Missing analysis field: "), Str(missing[i])>>]

\* error_handling.py:267-268  conf_value = analysis.get(conf_field, 0);
\* if conf_value and conf_value < cls.LOW_CONFIDENCE_THRESHOLD
low_confidence(analysis, conf_field) ==
    LET conf_value == get(analysis, conf_field, Num(0)) IN
    Truthy(conf_value) /\ conf_value.n < LOW_CONFIDENCE_THRESHOLD

\* error_handling.py:266-273  the confidence fields that are flagged
flagged(analysis) ==
    SelectSeq(confidence_fields, LAMBDA p : low_confidence(analysis, p[1]))

\* error_handling.py:269-272  one warning per flagged confidence
low_warnings(analysis) ==
    LET low == flagged(analysis) IN
    [i \in 1..Len(low) |->
        <<Str("Low confidence ("), analysis[low[i][1]], Str("%) for "),
          Str(low[i][2]), Str(". Result may be uncertain.")>>]

\* error_handling.py:273  enhanced[f"{related_field}_uncertain"] = True
uncertain_key(related_field) ==
    IF related_field = "call_reason" THEN "call_reason_uncertain"
    ELSE "call_outcome_uncertain"

\* Mutant of all_confidences: an absent confidence counts as 0.
all_confidences_zero(analysis) ==
    <<get(analysis, "call_reason_confidence", Num(0)),
      get(analysis, "call_outcome_confidence", Num(0))>>

\* error_handling.py:276-279
all_confidences(analysis) ==
    <<get(analysis, "call_reason_confidence", Num(ASSUMED_CONFIDENCE)),
      get(analysis, "call_outcome_confidence", Num(ASSUMED_CONFIDENCE))>>

\* The pieces of a warning (texts and formatted values) that contain the word
\* Missing.
HasMissing(piece) == piece = Str("Missing analysis field: ")

\* Mutant of is_valid: a record with any warning is invalid.
is_valid_unwarned(warnings) == warnings = <<>>

\* error_handling.py:284  len([w for w in warnings if "Missing" in w]) == 0
is_valid(warnings) ==
    \A i \in 1..Len(warnings) :
        \A k \in 1..Len(warnings[i]) : ~HasMissing(warnings[i][k])

\* error_handling.py:245-285  validate_analysis(analysis): sum() raises
\* TypeError on a confidence that is None; otherwise the tuple
\* (is_valid, warnings, enhanced)
validate_analysis(analysis) ==
    LET warnings == missing_warnings(analysis) \o low_warnings(analysis)
        low == flagged(analysis)
        marked == [k \in DOMAIN analysis \cup {uncertain_key(low[i][2]) : i \in 1..Len(low)} |->
                      IF k \in DOMAIN analysis THEN analysis[k] ELSE True]
        all == all_confidences(analysis)
        avg_confidence == Float(all[1].n + all[2].n, Len(all)) IN
    IF \E i \in 1..Len(all) : all[i].type # "number"
    THEN [raised |-> TRUE, is_valid |-> FALSE, warnings |-> <<>>,
          enhanced |-> EmptyDict]
    ELSE [raised |-> FALSE, is_valid |-> is_valid(warnings), warnings |-> warnings,
          enhanced |-> set(set(marked, "overall_confidence", avg_confidence),
                           "analysis_warnings", List(warnings))]

\* error_handling.py:245-285  the call runs to its return or raises
validate ==
    /\ va.pc = "call"
    /\ LET r == validate_analysis(va.analysis) IN
         va' = [va EXCEPT !.pc = IF r.raised THEN "raised" ELSE "returned",
                          !.is_valid = r.is_valid, !.warnings = r.warnings,
                          !.enhanced = r.enhanced]
    /\ UNCHANGED <<status, transcripts, analyses, action_items, queue, op,
                   overlapped, rb, job, pj, fa>>

ValidateInit ==
    /\ StoreInit
    /\ rb = NoCall
    /\ job = NoJob
    /\ va \in {[pc |-> "call", analysis |-> a, is_valid |-> FALSE,
                 warnings |-> <<>>, enhanced |-> EmptyDict] : a \in Analyses}
    /\ pj = NoFunc /\ fa = NoFunc

SpecValidate == ValidateInit /\ [][validate]_vars

\* ------------------------------------------------------ run_full_analysis
\* A sub-analysis raised.
Raised == [type |-> "raised"]

\* Mutant of SubAnalyses: classification is awaited before buying potential.
SubAnalyses_swapped == <<"performance", "classification", "buying", "products", "sales_intel">>

\* The five sub-analyses before the summary, in the order of their calls and
\* of the merge; the sixth is generate_action_items.
SubAnalyses == <<"performance", "buying", "classification", "products", "sales_intel">>

\* analysis.py:332, 339, 346, 353, 360, 376  analysis_errors.append(...)
error_name(sub) ==
    IF sub = "performance" THEN "performance_analysis"
    ELSE IF sub = "buying" THEN "buying_analysis"
    ELSE IF sub = "classification" THEN "classification"
    ELSE IF sub = "products" THEN "product_analysis"
    ELSE IF sub = "sales_intel" THEN "sales_intelligence"
    ELSE "action_items"

\* analysis.py:331, 338, 345, 352, 359  the record of a sub-analysis that raised
fallback(sub) ==
    IF sub = "performance"
    THEN [performance_score |-> None, performance_explanation |-> Str("Analysis failed")]
    ELSE IF sub = "buying"
    THEN [interest_level |-> Str("unknown"), conversion_likelihood |-> Num(0),
          buying_signals_detected |-> List(<<>>)]
    ELSE IF sub = "classification"
    THEN [call_reason |-> Str("unknown"), call_outcome |-> Str("unknown")]
    ELSE IF sub = "products"
    THEN [products_discussed |-> List(<<>>), recommended_products |-> List(<<>>)]
    ELSE [objections_detected |-> List(<<>>), missed_opportunities |-> List(<<>>),
          missed_opportunity_flag |-> False]

\* analysis.py:304-322  the record of a transcript too short to analyse
MinimalRecord ==
    [performance_score |-> Num(0),
     performance_explanation |-> Str("Unable to analyze: transcript is empty or too short"),
     call_reason |-> Str("unknown"), call_reason_confidence |-> Num(0),
     call_outcome |-> Str("unknown"), call_outcome_confidence |-> Num(0),
     interest_level |-> Str("unknown"), conversion_likelihood |-> Num(0),
     buying_signals_detected |-> List(<<>>), sentiment_progression |-> List(<<>>),
     products_discussed |-> List(<<>>), recommended_products |-> List(<<>>),
     objections_detected |-> List(<<>>), missed_opportunities |-> List(<<>>),
     missed_opportunity_flag |-> False, action_items |-> List(<<>>),
     analysis_warnings |-> List(<<<<Str("Transcript too short for meaningful analysis")>>>>),
     overall_confidence |-> Num(0)]

\* analysis.py:143-259  what a sub-analysis returns is parse_json_response(
\* response) of the completion: the object the prompt asks for, an object with
\* other keys, the empty default, or a JSON value that is no object.
Answers(sub) ==
    IF sub = "performance"
    THEN {Obj([performance_score |-> Num(72), performance_explanation |-> Str("polite")]),
          Obj(EmptyDict), List(<<>>)}
    ELSE IF sub = "buying"
    THEN {Obj([interest_level |-> Str("high"), conversion_likelihood |-> Num(80),
               buying_signals_detected |-> List(<<Str("asked for the price")>>)]),
          Obj([interest_level |-> Str("high"), performance_score |-> None])}
    ELSE IF sub = "classification"
    THEN {Obj([call_reason |-> Str("complaint"), call_reason_confidence |-> Num(30),
               call_outcome |-> Str("resolved"), call_outcome_confidence |-> Num(90)]),
          Obj([call_reason |-> Str("complaint"), call_reason_confidence |-> None,
               call_outcome |-> Str("resolved")])}
    ELSE IF sub = "products"
    THEN {Obj([products_discussed |-> List(<<Str("router")>>),
               recommended_products |-> List(<<>>)]),
          List(<<>>)}
    ELSE {Obj([objections_detected |-> List(<<>>),
               missed_opportunities |-> List(<<Str("upsell")>>),
               missed_opportunity_flag |-> True]),
          Obj([objections_detected |-> List(<<>>), missed_opportunities |-> None])}

\* analysis.py:283-285  generate_action_items: call_llm raises, or
\* result.get raises on a completion that is no object, or the list under
\* action_items ([] without the key) is returned
ItemOutcomes ==
    {Raised, List(<<>>), List(<<Str("follow up")>>)}

\* The transcripts handed to run_full_analysis: len characters, pad of them
\* whitespace at the two ends.
MaxPad == 2
Transcripts ==
    {[len |-> l, pad |-> p] :
        l \in {0, MIN_ANALYSIS_LENGTH - 1, MIN_ANALYSIS_LENGTH,
               MIN_ANALYSIS_LENGTH + MaxPad},
        p \in {0, MaxPad}} \ {[len |-> 0, pad |-> MaxPad]}

\* Mutant of short_circuit: the length is taken before stripping.
short_circuit_unstripped(transcript) ==
    transcript.len = 0 \/ TooShort(transcript.len)

\* analysis.py:302  if not transcript or len(transcript.strip()) < 50
short_circuit(transcript) ==
    transcript.len = 0 \/ TooShort(transcript.len - transcript.pad)

\* analysis.py:298-323  the short-circuit
rfa_check ==
    /\ fa.pc = "start"
    /\ fa' = IF short_circuit(fa.transcript)
             THEN [fa EXCEPT !.pc = "returned", !.out = MinimalRecord]
             ELSE [fa EXCEPT !.pc = "sub"]
    /\ UNCHANGED <<status, transcripts, analyses, action_items, queue, op,
                   overlapped, rb, job, pj, va>>

\* analysis.py:328-361  the next of the five guarded sub-analyses: its result,
\* or its fallback and its name in analysis_errors when it raised
rfa_sub ==
    /\ fa.pc = "sub"
    /\ LET sub == SubAnalyses[fa.step] IN
       \E o \in {Raised} \cup Answers(sub) :
          fa' = [fa EXCEPT
                   !.invoked[sub] = @ + 1,
                   !.log = Append(@, [name |-> sub, outcome |-> o]),
                   !.results = [x \in DOMAIN fa.results \cup {sub} |->
                                   IF x # sub THEN fa.results[x]
                                   ELSE IF o = Raised THEN Obj(fallback(sub)) ELSE o],
                   !.analysis_errors = IF o = Raised THEN Append(@, error_name(sub))
                                       ELSE @,
                   !.step = @ + 1,
                   !.pc = IF fa.step = Len(SubAnalyses) THEN "summary" ELSE "sub"]
    /\ UNCHANGED <<status, transcripts, analyses, action_items, queue, op,
                   overlapped, rb, job, pj, va>>

\* analysis.py:363-369  the values the f-string of analysis_summary
\* interpolates, read from four of the five results
analysis_summary(performance, buying, classification, sales_intel) ==
    [performance_score |-> get(performance.d, "performance_score", Str("N/A")),
     interest_level |-> get(buying.d, "interest_level", Str("N/A")),
     call_reason |-> get(classification.d, "call_reason", Str("N/A")),
     call_outcome |-> get(classification.d, "call_outcome", Str("N/A")),
     missed_opportunities |->
         Num(Len(get(sales_intel.d, "missed_opportunities", List(<<>>)).items))]

\* analysis.py:363-369  the summary is built outside any try: .get on a result
\* that is no object raises AttributeError, len() of a missed_opportunities
\* that is no list raises TypeError
rfa_summary ==
    /\ fa.pc = "summary"
    /\ fa' = IF \E sub \in {"performance", "buying", "classification", "sales_intel"} :
                   fa.results[sub].type # "object"
             THEN [fa EXCEPT !.pc = "raised", !.exc = "AttributeError"]
             ELSE IF get(fa.results["sales_intel"].d, "missed_opportunities",
                         List(<<>>)).type # "list"
             THEN [fa EXCEPT !.pc = "raised", !.exc = "TypeError"]
             ELSE [fa EXCEPT !.pc = "items",
                             !.summary = analysis_summary(fa.results["performance"],
                                 fa.results["buying"], fa.results["classification"],
                                 fa.results["sales_intel"])]
    /\ UNCHANGED <<status, transcripts, analyses, action_items, queue, op,
                   overlapped, rb, job, pj, va>>

\* analysis.py:371-376  the guarded generate_action_items
rfa_action_items ==
    /\ fa.pc = "items"
    /\ \E o \in ItemOutcomes :
          fa' = [fa EXCEPT
                   !.invoked["action_items"] = @ + 1,
                   !.log = Append(@, [name |-> "action_items", outcome |-> o]),
                   !.action_items = IF o = Raised THEN List(<<>>) ELSE o,
                   !.analysis_errors = IF o = Raised
                                       THEN Append(@, error_name("action_items"))
                                       ELSE @,
                   !.pc = "merge"]
    /\ UNCHANGED <<status, transcripts, analyses, action_items, queue, op,
                   overlapped, rb, job, pj, va>>

\* {**a, **b}: the keys of both, a key of both with the value of b
merged(a, b) ==
    [k \in DOMAIN a \cup DOMAIN b |-> IF k \in DOMAIN b THEN b[k] ELSE a[k]]

\* analysis.py:379-386  combined_result of the five results and the action
\* items, in the order of the dict display
combine(results, items) ==
    set(merged(merged(merged(merged(results["performance"].d, results["buying"].d),
                             results["classification"].d),
                      results["products"].d),
               results["sales_intel"].d),
        "action_items", items)

\* Mutant of with_errors: the error tracking is added whether or not a
\* sub-analysis raised.
with_errors_always(enhanced, analysis_errors) ==
    set(set(enhanced, "analysis_errors",
            List([i \in 1..Len(analysis_errors) |-> Str(analysis_errors[i])])),
        "analysis_warnings",
        List(get(enhanced, "analysis_warnings", List(<<>>)).items
             \o <<<<Str("Some analysis components failed: "),
                    List([i \in 1..Len(analysis_errors) |-> Str(analysis_errors[i])])>>>>))

\* analysis.py:392-396  the error tracking added to the validated record
with_errors(enhanced, analysis_errors) ==
    IF analysis_errors = <<>> THEN enhanced
    ELSE set(set(enhanced, "analysis_errors",
                 List([i \in 1..Len(analysis_errors) |-> Str(analysis_errors[i])])),
             "analysis_warnings",
             List(get(enhanced, "analysis_warnings", List(<<>>)).items
                  \o <<<<Str("Some analysis components failed: "),
                         List([i \in 1..Len(analysis_errors) |-> Str(analysis_errors[i])])>>>>))

\* analysis.py:378-405  merge, validate, add the error tracking, return: `**`
\* of a result that is no object raises TypeError, and so does
\* validate_analysis on a null confidence
rfa_merge ==
    /\ fa.pc = "merge"
    /\ fa' = IF \E i \in 1..Len(SubAnalyses) : fa.results[SubAnalyses[i]].type # "object"
             THEN [fa EXCEPT !.pc = "raised", !.exc = "TypeError"]
             ELSE LET combined_result == combine(fa.results, fa.action_items)
                      v == validate_analysis(combined_result) IN
                  IF v.raised
                  THEN [fa EXCEPT !.pc = "raised", !.exc = "TypeError",
                                  !.combined_result = combined_result]
                  ELSE [fa EXCEPT !.pc = "returned",
                                  !.combined_result = combined_result,
                                  !.out = with_errors(v.enhanced, fa.analysis_errors)]
    /\ UNCHANGED <<status, transcripts, analyses, action_items, queue, op,
                   overlapped, rb, job, pj, va>>

AnalysisInit ==
    /\ StoreInit
    /\ rb = NoCall
    /\ job = NoJob
    /\ fa \in {[pc |-> "start", transcript |-> t, step |-> 1,
                 results |-> EmptyDict, action_items |-> None,
                 analysis_errors |-> <<>>, log |-> <<>>, summary |-> None,
                 invoked |-> [sub \in {SubAnalyses[i] : i \in 1..Len(SubAnalyses)}
                                        \cup {"action_items"} |-> 0],
                 combined_result |-> EmptyDict, out |-> EmptyDict,
                 exc |-> "none"] : t \in Transcripts}
    /\ pj = NoFunc /\ va = NoFunc

AnalysisNext ==
    \/ rfa_check
    \/ rfa_sub
    \/ rfa_summary
    \/ rfa_action_items
    \/ rfa_merge

SpecAnalysis == AnalysisInit /\ [][AnalysisNext]_vars

\* ================================================================ claims
Ops == Calls \X Slots

\* The edges of the status state machine (spec 4.4).
LegalEdges ==
    {<<PENDING, TRANSCRIBING>>, <<FAILED, TRANSCRIBING>>,
     <<TRANSCRIBING, TRANSCRIBED>>, <<TRANSCRIBING, FAILED>>,
     <<TRANSCRIBED, ANALYZING>>, <<FAILED, ANALYZING>>,
     <<ANALYZING, ANALYZED>>, <<ANALYZING, FAILED>>}

\* C1: with at most one operation in flight per Call (the admission rule of
\* Spec), every committed change of a Call's status is a legal edge, and
\* failed -> analyzing is committed only when a Transcript is persisted.
C1_OnlyLegalEdges ==
    [][\A c \in Calls :
         status'[c] # status[c] =>
            /\ <<status[c], status'[c]>> \in LegalEdges
            /\ (status[c] = FAILED /\ status'[c] = ANALYZING) => transcripts[c] # <<>>]_vars

\* C1 witness: a pipeline run went through all of pending -> transcribing ->
\* transcribed -> analyzing -> analyzed.
C1_Witness ==
    \E <<c, s>> \in Ops :
        op[c][s].kind = "pipeline" /\ op[c][s].pc = "done" /\ status[c] = ANALYZED

\* C2, the state part: `transcribed`, `analyzing` and `analyzed` imply a
\* persisted Transcript, `analyzed` implies a persisted Analysis Result, and
\* `pending` implies neither.
C2_StatusConsistent ==
    \A c \in Calls :
        /\ status[c] \in {TRANSCRIBED, ANALYZING, ANALYZED} => transcripts[c] # <<>>
        /\ status[c] = ANALYZED => analyses[c] > 0
        /\ status[c] = PENDING => transcripts[c] = <<>> /\ analyses[c] = 0

\* C2 (as claimed): status and artifacts are consistent in every state, the
\* Transcript appears only in the commit that makes the Call `transcribed`,
\* and the Analysis Result only in the commit that makes it `analyzed`.
C2_SameCommit ==
    /\ []C2_StatusConsistent
    /\ [][\A c \in Calls :
            /\ Len(transcripts'[c]) > Len(transcripts[c]) =>
                  status[c] # TRANSCRIBED /\ status'[c] = TRANSCRIBED
            /\ analyses'[c] > analyses[c] =>
                  status[c] # ANALYZED /\ status'[c] = ANALYZED]_vars

\* C3: a pipeline run whose Transcription Stage failed commits `failed` and
\* stops: it never enters the Analysis Stage, makes no language-model call,
\* and `analyzing` is not committed.
C3_FailedTranscriptionStops ==
    \A <<c, s>> \in Ops :
        LET o == op[c][s] IN
        (o.kind = "pipeline" /\ o.tres \in TranscribeFailures) =>
            /\ o.pc \in {"t_save", "done"}
            /\ ~o.sentL /\ o.ares = "none"
            /\ status[c] # ANALYZING
            /\ o.pc = "done" => status[c] = FAILED

\* C3 witness: a run ended after the poll ceiling, having sent requests.
C3_Witness ==
    \E <<c, s>> \in Ops :
        /\ op[c][s].kind = "pipeline" /\ op[c][s].pc = "done"
        /\ op[c][s].tres = "timeout" /\ op[c][s].sentT /\ status[c] = FAILED

\* C4: when the first request of a stage goes out, the stage's status is
\* already committed: `transcribing` before the job service is contacted,
\* `analyzing` before the language model is called.
C4_CommitBeforeSideEffect ==
    [][\A <<c, s>> \in Ops :
         /\ (op'[c][s].sentT /\ ~op[c][s].sentT) => status[c] = TRANSCRIBING
         /\ (op'[c][s].sentL /\ ~op[c][s].sentL) => status[c] = ANALYZING]_vars

\* C4 witness: a pipeline run has contacted both services, and an analyze
\* request has called the language model.
C4_Witness ==
    /\ \E <<c, s>> \in Ops :
         op[c][s].kind = "pipeline" /\ op[c][s].sentT /\ op[c][s].sentL
    /\ \E <<c, s>> \in Ops : op[c][s].kind = "analyze" /\ op[c][s].sentL

\* C5 (as claimed): a pipeline run that has ended left the Call `analyzed`
\* or `failed`.
C5_RunEndsTerminal ==
    \A <<c, s>> \in Ops :
        (op[c][s].kind = "pipeline" /\ op[c][s].pc = "done") =>
            status[c] \in {ANALYZED, FAILED}

\* C6 (as claimed): a pipeline run during which the transcription service
\* returned a text and the language-model stage returned a well-formed
\* record (or was not needed) ends with the Call `analyzed`, from whichever
\* `pending` or `failed` state it was submitted.
C6_ResumedRunAnalyzes ==
    \A <<c, s>> \in Ops :
        LET o == op[c][s] IN
        (o.kind = "pipeline" /\ o.pc = "done" /\ o.tres = "ok"
            /\ o.ares # "raise" /\ ~LoopRaises(o.items)) =>
            status[c] = ANALYZED

\* C7 (as claimed): a Call has at most one Transcript, and a transcription
\* that succeeds for a Call that already has one replaces it.
C7_RerunOverwrites ==
    /\ [](\A c \in Calls : Len(transcripts[c]) <= 1)
    /\ [][\A <<c, s>> \in Ops :
            (op[c][s].pc = "t_save" /\ op'[c][s].pc # "t_save"
                /\ op[c][s].tres = "ok" /\ transcripts[c] # <<>>) =>
               /\ transcripts'[c] = <<op[c][s].text>>
               /\ status'[c] = TRANSCRIBED]_vars

\* C8 (as claimed): Analysis Result and Action Item rows are persisted only
\* by the commit that makes the Call `analyzed`.
C8_PersistOnlyOnSuccess ==
    [][\A c \in Calls :
         (analyses'[c] # analyses[c] \/ action_items'[c] # action_items[c]) =>
            status'[c] = ANALYZED]_vars

\* C9: a transcribe or process request for a Call that is neither `pending`
\* nor `failed` is answered 400 with the status unchanged, no request to the
\* job service and no pipeline run scheduled.
C9_TranscriptionPrecondition ==
    [][\A <<c, s>> \in Ops :
         LET o == op[c][s] IN
         (o.pc = "check" /\ o.kind \in {"transcribe", "process"}
             /\ status[c] \notin {PENDING, FAILED} /\ op'[c][s] # o) =>
            /\ op'[c][s].pc = "done" /\ op'[c][s].resp = 400
            /\ ~op'[c][s].sentT
            /\ status'[c] = status[c] /\ queue'[c] = queue[c]
            /\ transcripts'[c] = transcripts[c]]_vars

\* C9 witness: a process request on an analyzed Call was rejected.
C9_Witness ==
    \E <<c, s>> \in Ops :
        /\ op[c][s].kind = "process" /\ op[c][s].pc = "done"
        /\ op[c][s].resp = 400 /\ status[c] = ANALYZED /\ queue[c] = 0

\* C10: an analyze request is accepted only for a Call with a persisted
\* Transcript and status `transcribed` or `failed`; otherwise it is answered
\* 400 with status, Transcript and Analysis Result unchanged and no
\* language-model call.
C10_AnalysisPrecondition ==
    [][\A <<c, s>> \in Ops :
         LET o == op[c][s]
             allowed == transcripts[c] # <<>> /\ status[c] \in {TRANSCRIBED, FAILED} IN
         (o.pc = "check" /\ o.kind = "analyze" /\ op'[c][s] # o) =>
            /\ op'[c][s].pc = "a_call" => allowed
            /\ ~allowed =>
                 /\ op'[c][s].pc = "done" /\ op'[c][s].resp = 400
                 /\ ~op'[c][s].sentL
                 /\ status'[c] = status[c]
                 /\ transcripts'[c] = transcripts[c]
                 /\ analyses'[c] = analyses[c]
                 /\ action_items'[c] = action_items[c]]_vars

\* C10 witness: an analyze request was rejected on its status although a
\* Transcript exists, and another one was accepted and completed.
C10_Witness ==
    /\ \E <<c, s>> \in Ops :
         /\ op[c][s].kind = "analyze" /\ op[c][s].pc = "done"
         /\ op[c][s].resp = 400 /\ transcripts[c] # <<>>
    /\ \E <<c, s>> \in Ops :
         /\ op[c][s].kind = "analyze" /\ op[c][s].pc = "done"
         /\ op[c][s].resp = 200 /\ status[c] = ANALYZED

\* C11 (as stated): whatever the interleaving of process requests for a Call,
\* at most one pipeline run of it is scheduled or in progress.
C11_OneRunAtATime ==
    \A c \in Calls : RunsInProgress(c) <= 1

\* C11 (amended): as long as no process request loaded the Call while another
\* process request had loaded it and not yet committed `transcribing`, at
\* most one pipeline run of the Call is scheduled or in progress.
C11_OneRunUnlessOverlapped ==
    \A c \in Calls : ~overlapped[c] => RunsInProgress(c) <= 1

\* C11: a process request was refused while the only run of the Call was in
\* progress, and no two process requests ever overlapped.
C11_Witness ==
    \E c \in Calls, s \in Slots :
        /\ ~overlapped[c] /\ RunsInProgress(c) = 1
        /\ op[c][s].kind = "process" /\ op[c][s].pc = "done" /\ op[c][s].resp = 400

\* --------------------------------------------------- the Backoff Executor
NonDecreasing(q) == \A i \in 1..(Len(q) - 1) : q[i] <= q[i + 1]
Capped(r) == \A i \in 1..Len(r.sleeps) : r.sleeps[i] <= r.max_delay

\* C12 (as stated): a call that returns on its N-th attempt has invoked the
\* operation N times and slept N-1 times, every delay is at most max_delay,
\* and the delays are non-decreasing.
C12_ReturnsAfterNAttempts ==
    rb.pc = "returned" =>
        /\ rb.invoked = rb.attempt + 1
        /\ Len(rb.sleeps) = rb.invoked - 1
        /\ Capped(rb)
        /\ NonDecreasing(rb.sleeps)

\* C12 (amended): a call that returns on its N-th attempt has invoked the
\* operation N times and slept N-1 times, every delay is at most max_delay,
\* and the delays are non-decreasing when none of them was taken from a wait
\* hint.
C12_ReturnsAfterNAttemptsUnhinted ==
    rb.pc = "returned" =>
        /\ rb.invoked = rb.attempt + 1
        /\ Len(rb.sleeps) = rb.invoked - 1
        /\ Capped(rb)
        /\ ~rb.hinted => NonDecreasing(rb.sleeps)

\* C12: a call returned on its third attempt after two growing computed delays.
C12_Witness ==
    /\ rb.pc = "returned" /\ rb.invoked = 3 /\ ~rb.hinted
    /\ Len(rb.sleeps) = 2 /\ rb.sleeps[1] < rb.sleeps[2]

\* A failure the executor does not retry: outside the retryable classes, or an
\* HTTP status error whose code is none of 429, 500, 502, 503, 504.
NonRetryable(e) ==
    /\ e # NoExc
    /\ \/ e.cls \notin {"HTTPStatusError", "TimeoutException", "RateLimitError"}
       \/ e.cls = "HTTPStatusError" /\ e.status_code \notin {429, 500, 502, 503, 504}

\* C13: an invocation that raises a non-retryable failure, on the first or a
\* later attempt, ends the call with that very failure and without a sleep,
\* and a call that has raised does nothing more.
C13_NonRetryablePropagates ==
    [][/\ (rb.pc = "call" /\ rb'.invoked = rb.invoked + 1 /\ NonRetryable(rb'.out))
          => (rb'.pc = "raised" /\ rb'.exc = rb'.out /\ rb'.sleeps = rb.sleeps)
       /\ rb.pc = "raised" => rb' = rb]_vars

\* C13: a non-retryable failure was propagated from a later attempt.
C13_Witness ==
    rb.pc = "raised" /\ rb.attempt >= 1 /\ NonRetryable(rb.exc)

\* C14 (safety part): at most max_retries + 1 invocations and max_retries
\* sleeps; a call whose every attempt failed retryably raises the last failure
\* unchanged, having slept only between attempts.
C14_Bounded ==
    /\ rb.invoked <= rb.max_retries + 1
    /\ Len(rb.sleeps) <= rb.max_retries
    /\ (rb.pc = "raised" /\ rb.invoked = rb.max_retries + 1) =>
          /\ rb.exc = rb.out
          /\ Len(rb.sleeps) = rb.max_retries

\* C14: the executor always terminates, within max_retries + 1 invocations
\* and max_retries sleeps, and when every attempt fails retryably it raises
\* the last failure unchanged without sleeping after it.
C14_Terminates ==
    /\ []C14_Bounded
    /\ <>(rb.pc \in {"returned", "raised"})
    /\ [][rb.pc = "raised" => rb' = rb]_vars

\* C14: every attempt failed retryably and the last failure was raised.
C14_Witness ==
    /\ rb.pc = "raised" /\ rb.max_retries >= 2
    /\ rb.invoked = rb.max_retries + 1 /\ ~NonRetryable(rb.exc)

\* A rate-limit signal that carries a wait hint.
CarriesHint(e) ==
    /\ e.cls = "RateLimitError" \/ (e.cls = "HTTPStatusError" /\ e.status_code = 429)
    /\ e.retry_after # NoHint

\* C15: after a rate-limit signal that carries a wait hint the executor
\* sleeps exactly the hint, whatever its value (0, or above max_delay).
C15_SleepEqualsHint ==
    (rb.pc = "sleep" /\ CarriesHint(rb.out)) => rb.delay = rb.out.retry_after

\* A transient failure of a request: a timeout, HTTP 429 or HTTP 5xx.
Transient(e) ==
    \/ e.cls = "TimeoutException"
    \/ e.status_code = 429
    \/ e.status_code >= 500

\* C16: a submit, poll or language-model call fails with a transient failure
\* only after the configured number of retries is exhausted.
C16_TransientRetried ==
    (rb.func \in Requests /\ rb.pc = "raised" /\ Transient(rb.exc))
        => rb.invoked = rb.max_retries + 1

\* ------------------------------------------------------------ the Job Poller
\* C17: once a fatal service failure has been observed (an HTTP 4xx other
\* than 429 on the submit or on a poll, a job that failed or was canceled),
\* transcribe_audio has raised: nothing is retried and no request follows.
C17_FatalPropagates ==
    job.fatal => job.pc = "raised"

\* C18 (as stated): a job whose polls saw k in-progress statuses and then
\* `succeeded` returns after exactly k poll intervals.
C18_ReturnsAfterKIntervals ==
    (job.pc = "returned" /\ job.swallowed = 0) => job.waits = job.inprogress

\* C18 (amended): a job whose polls saw k in-progress statuses and then
\* `succeeded` returns after exactly k + 1 poll intervals, one before each poll.
C18_ReturnsAfterEveryPollSlept ==
    (job.pc = "returned" /\ job.swallowed = 0) => job.waits = job.inprogress + 1

\* C18: running, running, succeeded returned the transcript.
C18_Witness ==
    /\ job.pc = "returned" /\ job.result = "transcript"
    /\ job.swallowed = 0 /\ job.inprogress = 2 /\ job.waits = 3

\* transcribe_audio is over.
JobOver == job.pc \in {"returned", "raised"}

\* C19 (safety part): at most max_polls iterations; a loop that is over saw a
\* terminal status or made max_polls iterations, and in the latter case
\* raised a TranscriptionError flagged retryable.
C19_Bounded ==
    /\ job.waits <= MAX_POLLS
    /\ (JobOver /\ job.waits > 0 /\ job.observed \notin TerminalStatuses) =>
          /\ job.waits = MAX_POLLS
          /\ job.pc = "raised"
          /\ job.error.cls = "TranscriptionError" /\ job.error.retryable

\* C19: the poll loop always terminates, by success, job failure,
\* cancellation or the ceiling of max_polls iterations, and when no iteration
\* saw a terminal status it raises a TranscriptionError flagged retryable.
C19_PollLoopTerminates ==
    /\ []C19_Bounded
    /\ <>JobOver

\* C19: the loop ran into its ceiling.
C19_Witness ==
    /\ job.pc = "raised" /\ job.waits = MAX_POLLS
    /\ job.observed \notin TerminalStatuses
    /\ job.error.retryable

\* C20: a poll that ended in an exception never ends transcribe_audio: the
\* loop goes on to its next iteration, unless it was the last of max_polls.
C20_FailedPollSwallowed ==
    [][(job.pc = "polling" /\ rb.pc = "raised" /\ job' # job) =>
          /\ job'.swallowed = job.swallowed + 1
          /\ IF job.poll_count < MAX_POLLS - 1
             THEN job'.pc = "loop" /\ job'.error = NoExc
             ELSE job'.pc = "raised" /\ job'.error.retryable]_vars

\* C20: the transcript was returned after a poll that had exhausted its
\* retries was swallowed.
C20_Witness ==
    job.pc = "returned" /\ job.result = "transcript" /\ job.exhausted

\* C21: the step that observes the status `failed` or `canceled` ends
\* transcribe_audio with a non-retryable TranscriptionError and no transcript;
\* the error of a failed job carries the upstream error message when the
\* status document has one; and a call that has raised makes no further poll.
C21_FailedOrCanceledRaises ==
    [][/\ (job.pc = "polling" /\ rb.pc = "returned"
            /\ rb.result \in {"failed", "canceled"} /\ job' # job) =>
              /\ job'.pc = "raised"
              /\ job'.error.cls = "TranscriptionError"
              /\ ~job'.error.retryable
              /\ job'.result = "none"
              /\ job'.observed = rb.result
              /\ job'.poll_count = job.poll_count /\ job'.waits = job.waits
              /\ ((rb.result = "failed" /\ rb.error # "none") =>
                     job'.message = <<"Transcription failed: ", rb.error>>)
              /\ rb' = NoCall
        /\ (job.pc = "raised" => job' = job /\ rb' = rb)]_vars

\* C21 witness: a job that failed upstream ended the call with the upstream
\* message, after at least one poll that found it in progress.
C21_Witness ==
    /\ job.pc = "raised" /\ job.observed = "failed" /\ job.inprogress > 0
    /\ job.message = <<"Transcription failed: ", "CUDA out of memory">>
    /\ ~job.error.retryable /\ job.result = "none"

\* The result of strategy k on a response: the first block fenced and tagged
\* json, the first fenced block, the text from the first to the last brace.
Strategy(k, response) ==
    IF k = 1 THEN direct_parse(response)
    ELSE IF k = 2 THEN json_block(response)
    ELSE IF k = 3 THEN code_block(response)
    ELSE braces(response)

\* C22: a returned call of parse_json_response on a non-empty response
\* returns the result of the first of the four strategies, in the order whole
\* text, json block, fenced block, braces, that parses; it called json.loads
\* for no strategy after that one, and for the strategies before it that
\* called json.loads the call failed.
C22_FirstStrategyThatParses ==
    (pj.pc = "returned" /\ pj.response # <<>>) =>
        /\ \A k \in 1..4 :
             (Parsed(Strategy(k, pj.response))
              /\ \A h \in 1..(k - 1) : ~Parsed(Strategy(h, pj.response)))
                => pj.value = Strategy(k, pj.response) /\ pj.from = k
        /\ \A i \in 1..Len(pj.tried) :
             /\ pj.tried[i] \in 1..4
             /\ i < Len(pj.tried) =>
                  /\ pj.tried[i] < pj.tried[i + 1]
                  /\ Strategy(pj.tried[i], pj.response) = JSONDecodeError
        /\ pj.from # 0 => pj.tried # <<>> /\ pj.tried[Len(pj.tried)] = pj.from

\* C22 witness: the block tagged json was returned although an earlier fenced
\* block of the response parses to another object.
C22_Witness ==
    /\ pj.pc = "returned" /\ pj.from = 2
    /\ Parsed(code_block(pj.response))
    /\ code_block(pj.response) # pj.value

\* C23: a returned call of parse_json_response returned a JSON object or the
\* default of the caller.
C23_ReturnsObject ==
    pj.pc = "returned" =>
        pj.value \in Objects \cup {IF pj.default = "None" THEN "{}" ELSE pj.default}

\* run_full_analysis returned without invoking a sub-analysis.
ShortCircuited ==
    /\ fa.pc = "returned"
    /\ \A sub \in DOMAIN fa.invoked : fa.invoked[sub] = 0

\* The record of a short-circuit: scores and confidences zero, classifications
\* unknown, collections and action items empty, the too-short warning.
IsMinimal(r) ==
    /\ \A k \in {"performance_score", "call_reason_confidence",
                 "call_outcome_confidence", "conversion_likelihood",
                 "overall_confidence"} : r[k] = Num(0)
    /\ \A k \in {"call_reason", "call_outcome", "interest_level"} : r[k] = Str("unknown")
    /\ \A k \in {"buying_signals_detected", "sentiment_progression",
                 "products_discussed", "recommended_products",
                 "objections_detected", "missed_opportunities", "action_items"} :
           r[k] = List(<<>>)
    /\ r["analysis_warnings"]
          = List(<<<<Str("Transcript too short for meaningful analysis")>>>>)
    /\ "analysis_errors" \notin DOMAIN r

\* C24 as stated: run_full_analysis short-circuits, with the minimal record and
\* no sub-analysis invoked, exactly when the transcript has fewer than 50
\* characters; with 50 or more the sub-analyses are run.
C24_ShortCircuitByLength ==
    fa.pc \notin {"idle", "start"} =>
        /\ ShortCircuited <=> fa.transcript.len < MIN_ANALYSIS_LENGTH
        /\ ShortCircuited => IsMinimal(fa.out)

\* C24 amended: run_full_analysis short-circuits, with the minimal record and
\* no sub-analysis invoked, exactly when the transcript without its leading
\* and trailing whitespace has fewer than 50 characters; otherwise the
\* sub-analyses are run.
C24_ShortCircuitByStrippedLength ==
    fa.pc \notin {"idle", "start"} =>
        /\ ShortCircuited <=>
              fa.transcript.len - fa.transcript.pad < MIN_ANALYSIS_LENGTH
        /\ ShortCircuited => IsMinimal(fa.out)
        /\ ~ShortCircuited =>
              fa.invoked["performance"] = 1 \/ (fa.pc = "sub" /\ fa.step = 1)

\* C24 witness: a transcript of at least 50 characters, fewer than 50 of them
\* between its leading and trailing whitespace, was short-circuited.
C24_Witness ==
    /\ ShortCircuited /\ IsMinimal(fa.out)
    /\ fa.transcript.len >= MIN_ANALYSIS_LENGTH

\* C25: when run_full_analysis is over for a transcript that is not
\* short-circuited, each of the six sub-analyses was invoked exactly once;
\* and a returned record lists the sub-analyses that raised in
\* analysis_errors and keeps the keys of every result.
C25_EachSubAnalysisOnce ==
    (fa.pc \in {"returned", "raised"} /\ ~short_circuit(fa.transcript)) =>
        /\ \A sub \in DOMAIN fa.invoked : fa.invoked[sub] = 1
        /\ fa.pc = "returned" =>
             /\ fa.analysis_errors # <<>> =>
                   fa.out["analysis_errors"]
                      = List([i \in 1..Len(fa.analysis_errors) |->
                                 Str(fa.analysis_errors[i])])
             /\ \A sub \in DOMAIN fa.results :
                   DOMAIN fa.results[sub].d \subseteq DOMAIN fa.out

\* C26: in the merged record, a key has the value of the first of the five
\* sub-analysis results, in merge order, that contributes it.
C26_EarlierKeysKept ==
    (fa.pc \in {"returned", "raised"} /\ fa.combined_result # EmptyDict) =>
        \A i \in 1..Len(SubAnalyses) :
            \A k \in DOMAIN fa.results[SubAnalyses[i]].d :
                (\A h \in 1..(i - 1) : k \notin DOMAIN fa.results[SubAnalyses[h]].d)
                   => fa.combined_result[k] = fa.results[SubAnalyses[i]].d[k]

\* The number of elements of a sequence that satisfy Test.
Count(seq, Test(_)) == Len(SelectSeq(seq, Test))

\* A confidence that is present and below the threshold.
PresentAndLow(analysis, conf_field) ==
    /\ conf_field \in DOMAIN analysis
    /\ analysis[conf_field].type = "number"
    /\ analysis[conf_field].n < LOW_CONFIDENCE_THRESHOLD

\* The low-confidence warning of a classification field.
LowWarning(analysis, p) ==
    <<Str("Low confidence ("), get(analysis, p[1], None), Str("%) for "),
      Str(p[2]), Str(". Result may be uncertain.")>>

\* C27: a returned validate_analysis has appended the low-confidence warning
\* of a classification field, and set its _uncertain flag to true, if and only
\* if the confidence of the field is present and below 50 (0 included).
C27_FlaggedIffBelowThreshold ==
    va.pc = "returned" =>
        \A i \in 1..Len(confidence_fields) :
            LET p == confidence_fields[i]
                low == PresentAndLow(va.analysis, p[1]) IN
            /\ low <=> (/\ uncertain_key(p[2]) \in DOMAIN va.enhanced
                        /\ va.enhanced[uncertain_key(p[2])] = True)
            /\ low <=> \E k \in 1..Len(va.warnings) :
                          va.warnings[k] = LowWarning(va.analysis, p)

\* The confidence of a field, 50 for a key the record does not have.
ConfidenceOr50(analysis, conf_field) ==
    IF conf_field \in DOMAIN analysis THEN analysis[conf_field].n ELSE 50

\* C28: the overall_confidence of a returned validate_analysis is the
\* arithmetic mean of the two confidences, an absent one counted as 50; it
\* lies in 0..100; and the confidences 30 and 90 give 60, call_reason_uncertain
\* true and no call_outcome_uncertain.
C28_OverallConfidenceIsMean ==
    va.pc = "returned" =>
        LET oc == va.enhanced["overall_confidence"]
            total == ConfidenceOr50(va.analysis, "call_reason_confidence")
                     + ConfidenceOr50(va.analysis, "call_outcome_confidence") IN
        /\ oc.type = "float" /\ oc.den > 0
        /\ 2 * oc.num = total * oc.den
        /\ 0 <= oc.num /\ oc.num <= 100 * oc.den
        /\ (/\ get(va.analysis, "call_reason_confidence", None) = Num(30)
            /\ get(va.analysis, "call_outcome_confidence", None) = Num(90)) =>
               /\ oc.num = 60 * oc.den
               /\ get(va.enhanced, "call_reason_uncertain", None) = True
               /\ "call_outcome_uncertain" \notin DOMAIN va.enhanced

\* C28 witness: the record with the confidences 30 and 90 was validated and
\* got the overall confidence 120 / 2.
C28_Witness ==
    /\ va.pc = "returned"
    /\ get(va.analysis, "call_reason_confidence", None) = Num(30)
    /\ get(va.analysis, "call_outcome_confidence", None) = Num(90)
    /\ va.enhanced["overall_confidence"] = Float(120, 2)

\* A required field that is absent or null.
MissingField(analysis, f) == f \notin DOMAIN analysis \/ analysis[f] = None

\* C29: a returned validate_analysis reports the record invalid if and only
\* if a required field is absent or null; it has exactly one missing-field
\* warning for each such field and none for another field.
C29_InvalidIffRequiredMissing ==
    va.pc = "returned" =>
        /\ ~va.is_valid <=>
              \E i \in 1..Len(required_fields) :
                  MissingField(va.analysis, required_fields[i])
        /\ \A i \in 1..Len(required_fields) :
              LET f == required_fields[i]
                  w == <<Str("Missing analysis field: "), Str(f)>> IN
              Count(va.warnings, LAMBDA x : x = w)
                 = IF MissingField(va.analysis, f) THEN 1 ELSE 0

\* C29 witness: a record with a low-confidence warning and no missing field
\* was reported valid.
C29_Witness ==
    /\ va.pc = "returned" /\ va.is_valid
    /\ PresentAndLow(va.analysis, "call_reason_confidence")
    /\ Len(va.warnings) = 1

\* Everything the program holds about one Call: its rows, its scheduled runs
\* and the sessions of its requests and runs.
View(c) == <<status[c], transcripts[c], analyses[c], action_items[c], queue[c], op[c]>>

\* C30: a step of a request or run of one Call leaves the status, Transcript,
\* Analysis Result and Action Items of every other Call unchanged, and also
\* its scheduled runs and sessions: every step changes what is held about at
\* most one Call.
C30_CallsIndependent ==
    [][\A a, b \in Calls :
         (a # b /\ View(a)' # View(a)) =>
            /\ status'[b] = status[b]
            /\ transcripts'[b] = transcripts[b]
            /\ analyses'[b] = analyses[b]
            /\ action_items'[b] = action_items[b]
            /\ View(b)' = View(b)]_vars

\* C30 witness: one Call was analysed by a pipeline run while a run of the
\* other Call, started before, is still waiting for its transcription.
C30_Witness ==
    \E a, b \in Calls :
        /\ a # b
        /\ status[a] = ANALYZED /\ analyses[a] = 1
        /\ status[b] = TRANSCRIBING /\ transcripts[b] = <<>>
        /\ \E s \in Slots : op[b][s].kind = "pipeline" /\ op[b][s].pc # "done"

\* The order in which run_full_analysis awaits the six sub-analyses.
Order == <<"performance", "buying", "classification", "products", "sales_intel",
           "action_items">>

\* The record run_full_analysis goes on with for the i-th invocation: the
\* fallback of a sub-analysis that raised, its answer otherwise.
Used(i) ==
    IF fa.log[i].outcome = Raised THEN Obj(fallback(fa.log[i].name))
    ELSE fa.log[i].outcome

\* C32: the sub-analyses are invoked one after the other in the order
\* performance, buying potential, classification, product matching, sales
\* intelligence, action items; action items are generated only after the
\* first five have returned or raised, with a summary built from their
\* results, or from the fallback of one that raised.
C32_FixedOrderSummaryFromResults ==
    /\ Len(fa.log) <= Len(Order)
    /\ \A i \in 1..Len(fa.log) : fa.log[i].name = Order[i]
    /\ fa.invoked["action_items"] > 0 =>
          /\ Len(fa.log) = Len(Order)
          /\ \A i \in 1..5 : Order[i] \in DOMAIN fa.results
          /\ fa.summary = analysis_summary(Used(1), Used(2), Used(3), Used(5))

\* Action items were generated after a sub-analysis raised and another
\* returned its answer.
C32_Witness ==
    /\ fa.pc = "returned"
    /\ fa.invoked["action_items"] = 1
    /\ fa.log[2].outcome = Raised
    /\ fa.log[1].outcome # Raised
    /\ fa.summary.interest_level = Str("unknown")
    /\ fa.summary.performance_score = Num(72)

\* The invocations that raised, and the names analysis_errors has for them.
RaisedAt == {i \in 1..Len(fa.log) : fa.log[i].outcome = Raised}
RaisedNames == {error_name(fa.log[i].name) : i \in RaisedAt}

\* The warning of with_errors.
ComponentsFailed(piece) == piece[1] = Str("Some analysis components failed: ")

\* run_full_analysis returned for a transcript of 50 characters or more that
\* was not short-circuited.
LongReturned ==
    /\ fa.pc = "returned"
    /\ fa.transcript.len >= MIN_ANALYSIS_LENGTH
    /\ ~short_circuit(fa.transcript)

C37_ReturnsWhicheverRaise ==
    fa.transcript.len >= MIN_ANALYSIS_LENGTH => fa.pc # "raised"

\* C34: after a failure that carries no wait hint the executor sleeps
\* min(base_delay * exponential_base^attempt, max_delay), attempt counting
\* from 0, so the first retry waits min(base_delay, max_delay); and no sleep,
\* hinted or not, is longer than max_delay.
C34_ComputedDelayCapped ==
    /\ (rb.pc = "sleep" /\ ~CarriesHint(rb.out)) =>
          /\ rb.delay = Min(rb.base_delay * Pow(rb.exponential_base, rb.attempt),
                            rb.max_delay)
          /\ rb.attempt = 0 => rb.delay = Min(rb.base_delay, rb.max_delay)
          /\ rb.attempt = Len(rb.sleeps)
    /\ rb.pc = "sleep" => rb.delay <= rb.max_delay
    /\ \A i \in 1..Len(rb.sleeps) : rb.sleeps[i] <= rb.max_delay
    /\ ~rb.hinted =>
          \A i \in 1..Len(rb.sleeps) :
              rb.sleeps[i] = Min(rb.base_delay * Pow(rb.exponential_base, i - 1),
                                 rb.max_delay)

\* The third failure of a call carried no hint: after sleeps of base_delay and
\* twice base_delay, the computed delay exceeds max_delay and is capped.
C34_Witness ==
    /\ rb.pc = "sleep" /\ rb.attempt = 2 /\ ~CarriesHint(rb.out)
    /\ rb.sleeps = <<rb.base_delay, 2 * rb.base_delay>>
    /\ 4 * rb.base_delay > rb.max_delay
    /\ rb.delay = rb.max_delay

\* C35 (as stated): a poll that finds the job `succeeded` ends
\* transcribe_audio with a transcript result, whatever the shape of the
\* payload.
C35_EveryPayloadYieldsTranscript ==
    job.observed = "succeeded" => (job.pc = "returned" /\ job.result = "transcript")

\* The step of transcribe_audio that takes the output of a succeeded job.
Extracting ==
    /\ job.pc = "polling" /\ rb.pc = "returned" /\ rb.result = "succeeded"
    /\ job' # job

\* transcribe_audio returns the transcript with this text and these segments.
ReturnsTranscript(text, segments) ==
    /\ job'.pc = "returned" /\ job'.result = "transcript"
    /\ job'.text = text /\ job'.segments = segments

\* C35 (amended): a string payload gives that string with no segments; an
\* object payload (or a status document without output) gives the text under
\* `transcription` if the key is present, else under `text`, else the empty
\* string, and the segments under `segments`, else none, provided that text
\* is a string and those segments are a list, and raises TypeError if not;
\* any other payload raises AttributeError.
C35_StringAndObjectPayloads ==
    [][Extracting =>
         LET o == rb.output
             d == IF o = Absent THEN EmptyDict ELSE o.d
             text == IF "transcription" \in DOMAIN d THEN d["transcription"]
                     ELSE IF "text" \in DOMAIN d THEN d["text"]
                     ELSE Str("")
             segments == IF "segments" \in DOMAIN d THEN d["segments"] ELSE List(<<>>) IN
         IF o.type = "string" THEN ReturnsTranscript(o, List(<<>>))
         ELSE IF o.type \in {"object", "absent"}
         THEN IF text.type = "string" /\ segments.type = "list"
              THEN ReturnsTranscript(text, segments)
              ELSE job'.pc = "raised" /\ job'.error.cls = "TypeError"
         ELSE job'.pc = "raised" /\ job'.error.cls = "AttributeError"]_vars

\* The transcript was taken from the key `text` of an object payload that has
\* no segments.
C35_Witness ==
    /\ job.pc = "returned" /\ job.observed = "succeeded"
    /\ job.output = Obj([text |-> Str("other")])
    /\ job.text = Str("other") /\ job.segments = List(<<>>)

\* The retry budget of the executor call in progress.
WithinBudget(func, retries) ==
    rb.func = func =>
        /\ rb.max_retries = retries
        /\ rb.attempt <= retries
        /\ rb.invoked <= retries + 1
        /\ Len(rb.sleeps) <= retries

\* C36: the submission is retried at most 3 times (at most 4 submit
\* requests) and the poll of one iteration at most 2 times (at most 3 status
\* requests); every submit and every poll starts with a budget of its own,
\* whatever the calls before it used; and a rate-limited request that has
\* retries left is retried.
C36_SeparateBudgets ==
    /\ [](WithinBudget("submit", 3) /\ WithinBudget("poll", 2))
    /\ [][/\ ((rb'.func \in {"submit", "poll"} /\ rb.func # rb'.func) =>
                 (rb'.invoked = 0 /\ rb'.attempt = 0 /\ rb'.sleeps = <<>>))
           /\ ((rb.pc = "call" /\ rb'.invoked = rb.invoked + 1
                 /\ rb'.out.cls = "RateLimitError"
                 /\ rb.attempt < rb.max_retries) =>
                 (rb'.pc = "sleep" /\ rb'.func = rb.func))]_vars

\* A poll used its three status requests, the last of them answered, after an
\* earlier poll of the same job had used up its own three.
C36_Witness ==
    /\ job.pc = "polling" /\ job.exhausted
    /\ rb.func = "poll" /\ rb.pc = "returned"
    /\ rb.invoked = 3 /\ Len(rb.sleeps) = 2

\* The status requests the job has made are at most three for each interval
\* waited before the current one, plus those of the poll in progress.
StatusRequestsAtMost ==
    3 * (IF job.waits = 0 THEN 0 ELSE job.waits - 1)
       + (IF rb.func = "poll" THEN rb.invoked ELSE 3)

\* C39: a poll that fails uses up its iteration like one that finds the job
\* in progress: every interval waited is followed by one poll, failed or
\* not; at most 120 intervals are waited; and with at most 3 status requests
\* for each, a job makes at most 360 of them.
C39_FailedPollsCount ==
    /\ job.waits <= 120
    /\ job.pc = "loop" => job.waits = job.swallowed + job.inprogress
    /\ job.pc = "polling" => job.waits = job.swallowed + job.inprogress + 1
    /\ job.pc \in {"loop", "polling"} => job.waits = job.poll_count +
                                             (IF job.pc = "polling" THEN 1 ELSE 0)
    /\ rb.func = "poll" => rb.invoked <= 3
    /\ job.waits > 0 => StatusRequestsAtMost <= 120 * 3

\* The loop ran into its ceiling of 120 intervals although polls failed.
C39_Witness ==
    /\ job.pc = "raised" /\ job.waits = 120
    /\ job.swallowed = MaxFailedPolls /\ job.inprogress = 120 - MaxFailedPolls

\* The flags of a status read that are true.
FlagsSet(r) ==
    {f \in {"is_processing", "is_complete", "is_failed"} : r[f]}

\* C40: the status read puts every Call into exactly one of four classes
\* that depend on its committed status only: processing (transcribing,
\* analyzing), complete (analyzed), failed (failed), none of the three
\* (pending, transcribed); no status sets two flags.
C40_FlagsDisjointByStatus ==
    \A c \in Calls :
        LET r == get_call_status(c) IN
        /\ r.status = status[c]
        /\ Cardinality(FlagsSet(r)) <= 1
        /\ r.is_processing <=> status[c] \in {"transcribing", "analyzing"}
        /\ r.is_complete <=> status[c] = "analyzed"
        /\ r.is_failed <=> status[c] = "failed"
        /\ FlagsSet(r) = {} <=> status[c] \in {"pending", "transcribed"}

\* One Call reads as complete and not processing while the other, being
\* analyzed, reads as processing and not failed.
C40_Witness ==
    /\ get_call_status("c1").is_complete /\ ~get_call_status("c1").is_processing
    /\ get_call_status("c2").is_processing /\ ~get_call_status("c2").is_failed
    /\ status["c2"] = "analyzing"

\* C38: a pipeline run whose transcription job succeeded with a text of
\* fewer than 50 characters, the empty text included, persists the
\* Transcript and commits `transcribed`, commits `analyzing`, gets the minimal
\* record from run_full_analysis without a language-model request, and
\* commits `analyzed`.
C38_ShortTextReachesAnalyzed ==
    [][\A c \in Calls, s \in Slots :
         LET o == op[c][s]
             n == op'[c][s] IN
         (o.kind = "pipeline" /\ o.tres = "ok" /\ TooShort(o.text) /\ n # o) =>
            /\ o.pc = "t_save" =>
                  (n.pc = "p_analyzing" /\ status'[c] = TRANSCRIBED
                   /\ o.text \in {transcripts'[c][i] : i \in 1..Len(transcripts'[c])})
            /\ o.pc = "p_analyzing" => (n.pc = "a_call" /\ status'[c] = ANALYZING)
            /\ o.pc = "a_call" => (n.ares = "ok" /\ ~n.sentL /\ n.items = <<>>)
            /\ o.pc = "a_save" => (status'[c] = ANALYZED /\ analyses'[c] = 1)]_vars

\* C31: once `analyzed` is committed for a Call its status never changes
\* again, whatever transcribe, analyze and process requests overlap the
\* pipeline run of the Call.
C31_AnalyzedIsFinal ==
    [][\A c \in Calls : status[c] = ANALYZED => status'[c] = ANALYZED]_vars
====
